---- MODULE Spec2Model ----
(***************************************************************************)
(* A state-machine model of the kilo text editor (src/src/kilo.c).         *)
(*                                                                         *)
(* Characters and keys are their integer codes, as in the C source.  C     *)
(* arrays are TLA+ sequences: the C element a[k] is the TLA+ element       *)
(* a[k + 1].  A C string is the sequence of its bytes without the NUL      *)
(* terminator; StrAt gives the terminator back when it is read.            *)
(***************************************************************************)
EXTENDS Integers, Sequences, FiniteSets, TLC

(***************************************************************************)
(* Bounds of the model (not program constants).                            *)
(***************************************************************************)
MaxRows == 3
MaxLen == 2
MaxDirty == 3
MaxQuery == 3
MaxFile == 3
MaxSplitDirty == 8
MaxKeys == 4
MaxCoordLen == 3
MaxRx == 26
MaxShortDirty == 2
MaxShortQuery == 1
MaxTty == 3
MaxKwLen == 4

(***************************************************************************)
(* Program constants.                                                      *)
(***************************************************************************)
KILO_TAB_STOP == 8
KILO_QUIT_TIMES == 3

BACKSPACE == 127
ARROW_LEFT == 1000
ARROW_RIGHT == 1001
ARROW_UP == 1002
ARROW_DOWN == 1003
DEL_KEY == 1004
HOME_KEY == 1005
END_KEY == 1006
PAGE_UP == 1007
PAGE_DOWN == 1008

HL_NORMAL == 0
HL_COMMENT == 1
HL_MLCOMMENT == 2
HL_KEYWORD1 == 3
HL_KEYWORD2 == 4
HL_STRING == 5
HL_NUMBER == 6
HL_MATCH == 7

HL_HIGHLIGHT_NUMBERS == 1
HL_HIGHLIGHT_STRINGS == 2

\* Character codes the source names in literals.
TAB == 9
LF == 10
CR == 13
ESC == 27
SPACE == 32

\* CTRL_KEY(k) is k & 0x1f.
CTRL_KEY(k) == k % 32

\* A null char* (E.filename, the prompt's result) and a null E.syntax.
NULL == <<>>
NULLSYN == 0

C_HL_extensions == << <<46, 99>>, <<46, 104>>, <<46, 99, 112, 112>> >>

C_HL_keywords ==
    << <<115, 119, 105, 116, 99, 104>>,
       <<105, 102>>,
       <<119, 104, 105, 108, 101>>,
       <<102, 111, 114>>,
       <<98, 114, 101, 97, 107>>,
       <<99, 111, 110, 116, 105, 110, 117, 101>>,
       <<114, 101, 116, 117, 114, 110>>,
       <<101, 108, 115, 101>>,
       <<115, 116, 114, 117, 99, 116>>,
       <<117, 110, 105, 111, 110>>,
       <<116, 121, 112, 101, 100, 101, 102>>,
       <<115, 116, 97, 116, 105, 99>>,
       <<101, 110, 117, 109>>,
       <<99, 108, 97, 115, 115>>,
       <<99, 97, 115, 101>>,
       <<105, 110, 116, 124>>,
       <<108, 111, 110, 103, 124>>,
       <<100, 111, 117, 98, 108, 101, 124>>,
       <<102, 108, 111, 97, 116, 124>>,
       <<99, 104, 97, 114, 124>>,
       <<117, 110, 115, 105, 103, 110, 101, 100, 124>>,
       <<115, 105, 103, 110, 101, 100, 124>>,
       <<118, 111, 105, 100, 124>> >>

\* The highlight database; E.syntax = j stands for &HLDB[j - 1] of the source.
HLDB ==
    << [filetype |-> "c",
        filematch |-> C_HL_extensions,
        keywords |-> C_HL_keywords,
        singleline_comment_start |-> <<47, 47>>,
        multiline_comment_start |-> <<47, 42>>,
        multiline_comment_end |-> <<42, 47>>,
        flags |-> HL_HIGHLIGHT_NUMBERS + HL_HIGHLIGHT_STRINGS] >>

(***************************************************************************)
(* C library helpers.                                                      *)
(***************************************************************************)
\* s[i] of a NUL-terminated C string.
StrAt(s, i) == IF i < Len(s) THEN s[i + 1] ELSE 0

\* !strncmp(&s[i], t, strlen(t))
StrNEq(s, i, t) == \A k \in 0..(Len(t) - 1) : StrAt(s, i + k) = t[k + 1]

\* memset(&hl[i], v, n)
MemSet(hl, i, n, v) ==
    [k \in 1..Len(hl) |-> IF i < k /\ k <= i + n THEN v ELSE hl[k]]

\* flags & bit, for a one-bit mask
HasFlag(flags, bit) == (flags \div bit) % 2 = 1

isspace(c) == c \in {32, 9, 10, 11, 12, 13}
isdigit(c) == c >= 48 /\ c <= 57
iscntrl(c) == (c >= 0 /\ c < 32) \/ c = 127

MinOf(S) == CHOOSE x \in S : \A y \in S : x <= y

SubSeqFrom(s, i) == SubSeq(s, i + 1, Len(s))

(***************************************************************************)
(* Syntax highlighting.                                                    *)
(***************************************************************************)
is_separator(c) ==
    isspace(c) \/ c = 0
    \/ c \in {44, 46, 40, 41, 43, 45, 47, 42, 61, 126, 37, 60, 62, 91, 93, 59}

\* The keyword's length without its trailing '|' marker.
KwLen(kw) == IF kw[Len(kw)] = 124 THEN Len(kw) - 1 ELSE Len(kw)

\* A variant of KwMatch without the test of the byte after the keyword.
KwMatchPrefix(render, i, kw) ==
    StrNEq(render, i, SubSeq(kw, 1, KwLen(kw)))

KwMatch(render, i, kw) ==
    /\ StrNEq(render, i, SubSeq(kw, 1, KwLen(kw)))
    /\ is_separator(StrAt(render, i + KwLen(kw)))

\* The index j at which the keyword loop breaks, 0 when it runs to the end.
FirstKeyword(render, i, keywords) ==
    LET hits == {j \in 1..Len(keywords) : KwMatch(render, i, keywords[j])}
    IN  IF hits = {} THEN 0 ELSE MinOf(hits)

\* The while loop of editorUpdateSyntax, from position i with the loop's state.
RECURSIVE HlScan(_, _, _, _, _, _, _)
HlScan(syn, render, i, hl, prev_sep, in_string, in_comment) ==
    IF i >= Len(render) THEN [hl |-> hl, in_comment |-> in_comment]
    ELSE
    LET c == render[i + 1]
        prev_hl == IF i > 0 THEN hl[i] ELSE HL_NORMAL
        scs == syn.singleline_comment_start
        mcs == syn.multiline_comment_start
        mce == syn.multiline_comment_end
        kw == FirstKeyword(render, i, syn.keywords)
    IN
    IF Len(scs) > 0 /\ in_string = 0 /\ ~in_comment /\ StrNEq(render, i, scs)
    THEN [hl |-> MemSet(hl, i, Len(render) - i, HL_COMMENT),
          in_comment |-> in_comment]
    ELSE IF Len(mcs) > 0 /\ Len(mce) > 0 /\ in_string = 0 /\ in_comment
    THEN IF StrNEq(render, i, mce)
         THEN HlScan(syn, render, i + Len(mce),
                     MemSet(hl, i, Len(mce), HL_MLCOMMENT), TRUE, in_string, FALSE)
         ELSE HlScan(syn, render, i + 1,
                     MemSet(hl, i, 1, HL_MLCOMMENT), prev_sep, in_string, in_comment)
    ELSE IF Len(mcs) > 0 /\ Len(mce) > 0 /\ in_string = 0 /\ ~in_comment
            /\ StrNEq(render, i, mcs)
    THEN HlScan(syn, render, i + Len(mcs),
                MemSet(hl, i, Len(mcs), HL_MLCOMMENT), prev_sep, in_string, TRUE)
    ELSE IF HasFlag(syn.flags, HL_HIGHLIGHT_STRINGS) /\ in_string # 0
    THEN IF c = 92 /\ i + 1 < Len(render)
         THEN HlScan(syn, render, i + 2,
                     MemSet(hl, i, 2, HL_STRING), prev_sep, in_string, in_comment)
         ELSE HlScan(syn, render, i + 1, MemSet(hl, i, 1, HL_STRING), TRUE,
                     IF c = in_string THEN 0 ELSE in_string, in_comment)
    ELSE IF HasFlag(syn.flags, HL_HIGHLIGHT_STRINGS) /\ (c = 34 \/ c = 39)
    THEN HlScan(syn, render, i + 1,
                MemSet(hl, i, 1, HL_STRING), prev_sep, c, in_comment)
    ELSE IF /\ HasFlag(syn.flags, HL_HIGHLIGHT_NUMBERS)
            /\ \/ isdigit(c) /\ (prev_sep \/ prev_hl = HL_NUMBER)
               \/ c = 46 /\ prev_hl = HL_NUMBER
    THEN HlScan(syn, render, i + 1,
                MemSet(hl, i, 1, HL_NUMBER), FALSE, in_string, in_comment)
    ELSE IF prev_sep /\ kw # 0
    THEN HlScan(syn, render, i + KwLen(syn.keywords[kw]),
                MemSet(hl, i, KwLen(syn.keywords[kw]),
                       IF syn.keywords[kw][Len(syn.keywords[kw])] = 124
                       THEN HL_KEYWORD2 ELSE HL_KEYWORD1),
                FALSE, in_string, in_comment)
    ELSE HlScan(syn, render, i + 1, hl, is_separator(c), in_string, in_comment)

\* editorUpdateSyntax(&E.row[p]): rehighlight the row stored at array position
\* p, then recurse into E.row[row->idx + 1] when its open-comment flag changed.
\* The row found through row->idx is the one the code reads and writes, also
\* when idx is not the row's position.  A negative index into E.row is
\* undefined behaviour: the call returns with e.ub set, and the handler that
\* made it ends in one of the outcomes listed at MainDone.
RECURSIVE editorUpdateSyntax(_, _)
editorUpdateSyntax(e, p) ==
    LET row == e.row[p + 1]
        cleared == [k \in 1..Len(row.render) |-> HL_NORMAL]
        Visit(changed, more) ==
            Append(e.visits, [pos |-> p, changed |-> changed, more |-> more,
                              numrows |-> e.numrows, rows |-> Len(e.row)])
    IN  IF e.syntax = NULLSYN
        THEN [e EXCEPT !.row[p + 1].hl = cleared, !.visits = Visit(FALSE, FALSE)]
        ELSE
        LET in_comment == row.idx > 0 /\ e.row[row.idx].hl_open_comment
            r == HlScan(HLDB[e.syntax], row.render, 0, cleared, TRUE, 0, in_comment)
            changed == row.hl_open_comment # r.in_comment
            more == changed /\ row.idx + 1 < e.numrows
            e1 == [e EXCEPT !.row[p + 1].hl = r.hl,
                            !.row[p + 1].hl_open_comment = r.in_comment,
                            !.visits = Visit(changed, more)]
        IN  IF more
            THEN IF row.idx + 1 < 0
                 THEN [e1 EXCEPT !.ub = TRUE]
                 ELSE editorUpdateSyntax(e1, row.idx + 1)
            ELSE e1

(***************************************************************************)
(* Row operations.                                                         *)
(***************************************************************************)
editorRowCxToRx(row, cx) ==
    LET RECURSIVE Loop(_, _)
        Loop(j, rx) ==
            IF j >= cx THEN rx
            ELSE IF row.chars[j + 1] = TAB
                 THEN Loop(j + 1, rx + (KILO_TAB_STOP - 1) - (rx % KILO_TAB_STOP) + 1)
                 ELSE Loop(j + 1, rx + 1)
    IN  Loop(0, 0)

\* A variant of editorRowRxToCx that stops at cur_rx >= rx.
editorRowRxToCxInclusive(row, rx) ==
    LET RECURSIVE Loop(_, _)
        Loop(cx, cur_rx) ==
            IF cx >= Len(row.chars) THEN cx
            ELSE LET nxt == IF row.chars[cx + 1] = TAB
                            THEN cur_rx + (KILO_TAB_STOP - 1) - (cur_rx % KILO_TAB_STOP) + 1
                            ELSE cur_rx + 1
                 IN  IF nxt >= rx THEN cx ELSE Loop(cx + 1, nxt)
    IN  Loop(0, 0)

editorRowRxToCx(row, rx) ==
    LET RECURSIVE Loop(_, _)
        Loop(cx, cur_rx) ==
            IF cx >= Len(row.chars) THEN cx
            ELSE LET nxt == IF row.chars[cx + 1] = TAB
                            THEN cur_rx + (KILO_TAB_STOP - 1) - (cur_rx % KILO_TAB_STOP) + 1
                            ELSE cur_rx + 1
                 IN  IF nxt > rx THEN cx ELSE Loop(cx + 1, nxt)
    IN  Loop(0, 0)

\* A variant of RenderOf in which every tab becomes KILO_TAB_STOP spaces.
RenderOfFixedTabs(chars) ==
    LET RECURSIVE Loop(_, _)
        Loop(j, out) ==
            IF j >= Len(chars) THEN out
            ELSE IF chars[j + 1] = TAB
                 THEN Loop(j + 1, out \o [k \in 1..KILO_TAB_STOP |-> SPACE])
                 ELSE Loop(j + 1, Append(out, chars[j + 1]))
    IN  Loop(0, <<>>)

\* The render loop of editorUpdateRow: tabs become spaces up to the next stop.
RenderOf(chars) ==
    LET RECURSIVE Pad(_)
        Pad(out) == IF Len(out) % KILO_TAB_STOP # 0 THEN Pad(Append(out, SPACE)) ELSE out
        RECURSIVE Loop(_, _)
        Loop(j, out) ==
            IF j >= Len(chars) THEN out
            ELSE IF chars[j + 1] = TAB
                 THEN Loop(j + 1, Pad(Append(out, SPACE)))
                 ELSE Loop(j + 1, Append(out, chars[j + 1]))
    IN  Loop(0, <<>>)

\* A variant of editorUpdateRow without the call of editorUpdateSyntax.
editorUpdateRowRenderOnly(e, p) ==
    [e EXCEPT !.row[p + 1].render = RenderOf(e.row[p + 1].chars)]

\* editorUpdateRow(&E.row[p])
editorUpdateRow(e, p) ==
    editorUpdateSyntax([e EXCEPT !.row[p + 1].render = RenderOf(e.row[p + 1].chars)], p)

NewRow(at, s) ==
    [idx |-> at, chars |-> s, render |-> <<>>, hl |-> <<>>, hl_open_comment |-> FALSE]

\* The renumbering loop of editorInsertRow, for (j = at + 1; j < E.numrows; j++),
\* over the array after the memmove; n is E.numrows before the insertion.
InsertRenumber(rows, at, n) ==
    [k \in 1..Len(rows) |->
        IF k - 1 >= at + 1 /\ k - 1 < n THEN [rows[k] EXCEPT !.idx = @ + 1] ELSE rows[k]]

editorInsertRow(e, at, s) ==
    IF at < 0 \/ at > e.numrows THEN e
    ELSE
    LET n == e.numrows
        moved == [k \in 1..(n + 1) |->
                    IF k <= at THEN e.row[k]
                    ELSE IF k = at + 1 THEN NewRow(at, s)
                    ELSE e.row[k - 1]]
        renum == [InsertRenumber(moved, at, n) EXCEPT ![at + 1] = NewRow(at, s)]
        e1 == editorUpdateRow([e EXCEPT !.row = renum], at)
    IN  [e1 EXCEPT !.numrows = n + 1, !.dirty = @ + 1]

\* The renumbering loop of editorDelRow, for (j = at; j < E.numrows - 1; j++),
\* over the array after the memmove; n is E.numrows before the deletion.
DeleteRenumber(rows, at, n) ==
    [k \in 1..Len(rows) |->
        IF k - 1 >= at /\ k - 1 < n - 1 THEN [rows[k] EXCEPT !.idx = @ - 1] ELSE rows[k]]

editorDelRow(e, at) ==
    IF at < 0 \/ at >= e.numrows THEN e
    ELSE
    LET n == e.numrows
        moved == [k \in 1..(n - 1) |-> IF k <= at THEN e.row[k] ELSE e.row[k + 1]]
    IN  [e EXCEPT !.row = DeleteRenumber(moved, at, n),
                  !.numrows = n - 1, !.dirty = @ + 1]

\* editorRowInsertChar(&E.row[p], at, c)
\* A variant of editorRowInsertChar that puts c at the end of the row.
editorRowInsertCharAtEnd(e, p, at, c) ==
    [editorUpdateRow([e EXCEPT !.row[p + 1].chars = Append(@, c)], p)
     EXCEPT !.dirty = @ + 1]

editorRowInsertChar(e, p, at, c) ==
    LET chars == e.row[p + 1].chars
        a == IF at < 0 \/ at > Len(chars) THEN Len(chars) ELSE at
        e1 == [e EXCEPT !.row[p + 1].chars =
                    SubSeq(chars, 1, a) \o <<c>> \o SubSeq(chars, a + 1, Len(chars))]
    IN  [editorUpdateRow(e1, p) EXCEPT !.dirty = @ + 1]

\* editorRowAppendString(&E.row[p], s, len)
editorRowAppendString(e, p, s) ==
    [editorUpdateRow([e EXCEPT !.row[p + 1].chars = @ \o s], p) EXCEPT !.dirty = @ + 1]

\* editorRowDelChar(&E.row[p], at)
\* A variant of editorRowDelChar without E.dirty++.
editorRowDelCharKeepsDirty(e, p, at) ==
    LET chars == e.row[p + 1].chars
    IN  IF at < 0 \/ at >= Len(chars) THEN e
        ELSE editorUpdateRow(
                 [e EXCEPT !.row[p + 1].chars =
                      SubSeq(chars, 1, at) \o SubSeq(chars, at + 2, Len(chars))], p)

editorRowDelChar(e, p, at) ==
    LET chars == e.row[p + 1].chars
    IN  IF at < 0 \/ at >= Len(chars) THEN e
        ELSE [editorUpdateRow(
                 [e EXCEPT !.row[p + 1].chars =
                      SubSeq(chars, 1, at) \o SubSeq(chars, at + 2, Len(chars))], p)
              EXCEPT !.dirty = @ + 1]

(***************************************************************************)
(* Editor operations.                                                      *)
(***************************************************************************)
editorInsertChar(e, c) ==
    LET e1 == IF e.cy = e.numrows THEN editorInsertRow(e, e.numrows, <<>>) ELSE e
        e2 == editorRowInsertChar(e1, e1.cy, e1.cx, c)
    IN  [e2 EXCEPT !.cx = @ + 1]

editorInsertNewLine(e) ==
    LET e1 == IF e.cx = 0
              THEN editorInsertRow(e, e.cy, <<>>)
              ELSE LET chars == e.row[e.cy + 1].chars
                       ins == editorInsertRow(e, e.cy + 1, SubSeqFrom(chars, e.cx))
                       cut == [ins EXCEPT !.row[e.cy + 1].chars = SubSeq(chars, 1, e.cx)]
                   IN  editorUpdateRow(cut, e.cy)
    IN  [e1 EXCEPT !.cy = e.cy + 1, !.cx = 0]

editorDelChar(e) ==
    IF e.cy = e.numrows THEN e
    ELSE IF e.cx = 0 /\ e.cy = 0 THEN e
    ELSE IF e.cx > 0
    THEN [editorRowDelChar(e, e.cy, e.cx - 1) EXCEPT !.cx = e.cx - 1]
    ELSE LET e1 == [e EXCEPT !.cx = Len(e.row[e.cy].chars)]
             e2 == editorRowAppendString(e1, e.cy - 1, e.row[e.cy + 1].chars)
             e3 == editorDelRow(e2, e.cy)
         IN  [e3 EXCEPT !.cy = e.cy - 1]

(***************************************************************************)
(* Syntax selection and file i/o.                                          *)
(***************************************************************************)
\* strstr(s, q) - s: the offset of the first occurrence of q in s, -1 for NULL.
StrStr(s, q) ==
    LET hits == {o \in 0..(Len(s) - Len(q)) : StrNEq(s, o, q)}
    IN  IF hits = {} THEN -1 ELSE MinOf(hits)

\* strrchr(name, '.') - name: the offset of the last '.', -1 for NULL.
StrRChrDot(name) ==
    LET dots == {o \in 0..(Len(name) - 1) : name[o + 1] = 46}
    IN  IF dots = {} THEN -1 ELSE CHOOSE o \in dots : \A d \in dots : d <= o

\* The test of editorSelectSyntaxHighlight for one filematch pattern.
FileMatches(name, pat) ==
    LET ext == StrRChrDot(name)
        is_ext == pat[1] = 46
    IN  \/ is_ext /\ ext # -1 /\ SubSeqFrom(name, ext) = pat
        \/ ~is_ext /\ StrStr(name, pat) # -1

\* for (filerow = 0; filerow < E.numrows; filerow++) editorUpdateSyntax(...)
RECURSIVE UpdateSyntaxFrom(_, _)
UpdateSyntaxFrom(e, filerow) ==
    IF filerow >= e.numrows \/ e.ub THEN e
    ELSE UpdateSyntaxFrom(editorUpdateSyntax(e, filerow), filerow + 1)

editorSelectSyntaxHighlight(e) ==
    LET hits == {j \in 1..Len(HLDB) :
                    \E i \in 1..Len(HLDB[j].filematch) :
                        FileMatches(e.filename, HLDB[j].filematch[i])}
    IN  IF e.filename = NULL \/ hits = {} THEN [e EXCEPT !.syntax = NULLSYN]
        ELSE UpdateSyntaxFrom([e EXCEPT !.syntax = MinOf(hits)], 0)

\* The lines getline() returns for a file's bytes: each ends with its '\n',
\* except possibly the last.
RECURSIVE GetLines(_)
GetLines(bytes) ==
    IF bytes = <<>> THEN <<>>
    ELSE LET nl == {k \in 1..Len(bytes) : bytes[k] = LF}
             end == IF nl = {} THEN Len(bytes) ELSE MinOf(nl)
         IN  <<SubSeq(bytes, 1, end)>> \o GetLines(SubSeq(bytes, end + 1, Len(bytes)))

\* A variant of StripEol with an if for the while: one end-of-line byte goes.
StripOneEol(line) ==
    IF Len(line) > 0 /\ (line[Len(line)] = LF \/ line[Len(line)] = CR)
    THEN SubSeq(line, 1, Len(line) - 1)
    ELSE line

\* while (linelen > 0 && (line[linelen - 1] == '\n' || line[linelen - 1] == '\r'))
RECURSIVE StripEol(_)
StripEol(line) ==
    IF Len(line) > 0 /\ (line[Len(line)] = LF \/ line[Len(line)] = CR)
    THEN StripEol(SubSeq(line, 1, Len(line) - 1))
    ELSE line

\* editorOpen(filename) when fopen succeeds on a file holding bytes.
editorOpen(e, filename, bytes) ==
    LET lines == GetLines(bytes)
        RECURSIVE Loop(_, _)
        Loop(e1, k) ==
            IF k > Len(lines) THEN e1
            ELSE Loop(editorInsertRow(e1, e1.numrows, StripEol(lines[k])), k + 1)
        e0 == editorSelectSyntaxHighlight([e EXCEPT !.filename = filename])
    IN  [Loop(e0, 1) EXCEPT !.dirty = 0]

editorRowsToString(e) ==
    LET RECURSIVE Loop(_, _)
        Loop(j, buf) ==
            IF j >= e.numrows THEN buf
            ELSE Loop(j + 1, buf \o e.row[j + 1].chars \o <<LF>>)
    IN  Loop(0, <<>>)

(***************************************************************************)
(* Cursor movement and scrolling.                                          *)
(***************************************************************************)
\* A variant of editorMoveCursor that snaps cx to the row's length only on a
\* row, and leaves it alone on the line after the last row.
editorMoveCursorSnapOnRows(e, key) ==
    LET hasrow == e.cy < e.numrows
        size == IF hasrow THEN Len(e.row[e.cy + 1].chars) ELSE 0
        e1 == IF key = ARROW_LEFT
              THEN IF e.cx # 0 THEN [e EXCEPT !.cx = @ - 1]
                   ELSE IF e.cy > 0
                        THEN [e EXCEPT !.cy = @ - 1, !.cx = Len(e.row[e.cy].chars)]
                        ELSE e
              ELSE IF key = ARROW_RIGHT
              THEN IF hasrow /\ e.cx < size THEN [e EXCEPT !.cx = @ + 1]
                   ELSE IF hasrow /\ e.cx = size THEN [e EXCEPT !.cy = @ + 1, !.cx = 0]
                        ELSE e
              ELSE IF key = ARROW_UP
              THEN IF e.cy # 0 THEN [e EXCEPT !.cy = @ - 1] ELSE e
              ELSE IF key = ARROW_DOWN
              THEN IF e.cy < e.numrows THEN [e EXCEPT !.cy = @ + 1] ELSE e
              ELSE e
        rowlen == IF e1.cy < e1.numrows THEN Len(e1.row[e1.cy + 1].chars) ELSE e1.cx
    IN  IF e1.cx > rowlen THEN [e1 EXCEPT !.cx = rowlen] ELSE e1

editorMoveCursor(e, key) ==
    LET hasrow == e.cy < e.numrows
        size == IF hasrow THEN Len(e.row[e.cy + 1].chars) ELSE 0
        e1 == IF key = ARROW_LEFT
              THEN IF e.cx # 0 THEN [e EXCEPT !.cx = @ - 1]
                   ELSE IF e.cy > 0
                        THEN [e EXCEPT !.cy = @ - 1, !.cx = Len(e.row[e.cy].chars)]
                        ELSE e
              ELSE IF key = ARROW_RIGHT
              THEN IF hasrow /\ e.cx < size THEN [e EXCEPT !.cx = @ + 1]
                   ELSE IF hasrow /\ e.cx = size THEN [e EXCEPT !.cy = @ + 1, !.cx = 0]
                        ELSE e
              ELSE IF key = ARROW_UP
              THEN IF e.cy # 0 THEN [e EXCEPT !.cy = @ - 1] ELSE e
              ELSE IF key = ARROW_DOWN
              THEN IF e.cy < e.numrows THEN [e EXCEPT !.cy = @ + 1] ELSE e
              ELSE e
        rowlen == IF e1.cy >= e1.numrows THEN 0 ELSE Len(e1.row[e1.cy + 1].chars)
    IN  IF e1.cx > rowlen THEN [e1 EXCEPT !.cx = rowlen] ELSE e1

\* A variant of editorScroll without the scroll towards a cursor below the
\* window.
editorScrollUpOnly(e) ==
    LET rx == IF e.cy < e.numrows THEN editorRowCxToRx(e.row[e.cy + 1], e.cx) ELSE 0
        ro1 == IF e.cy < e.rowoff THEN e.cy ELSE e.rowoff
        co1 == IF rx < e.coloff THEN rx ELSE e.coloff
        co2 == IF rx >= co1 + e.screencols THEN rx - e.screencols + 1 ELSE co1
    IN  [e EXCEPT !.rx = rx, !.rowoff = ro1, !.coloff = co2]

editorScroll(e) ==
    LET rx == IF e.cy < e.numrows THEN editorRowCxToRx(e.row[e.cy + 1], e.cx) ELSE 0
        ro1 == IF e.cy < e.rowoff THEN e.cy ELSE e.rowoff
        ro2 == IF e.cy >= ro1 + e.screenrows THEN e.cy - e.screenrows + 1 ELSE ro1
        co1 == IF rx < e.coloff THEN rx ELSE e.coloff
        co2 == IF rx >= co1 + e.screencols THEN rx - e.screencols + 1 ELSE co1
    IN  [e EXCEPT !.rx = rx, !.rowoff = ro2, !.coloff = co2]

\* editorDrawRows: one part per screen row, the visible slice of the file row
\* shown there (colours left out), or the tilde or the welcome line.
editorDrawRows(e) ==
    [y \in 1..e.screenrows |->
        LET filerow == (y - 1) + e.rowoff
        IN  IF filerow >= e.numrows
            THEN [part |-> "row", filerow |-> -1, text |-> <<126>>,
                  welcome |-> e.numrows = 0 /\ y - 1 = e.screenrows \div 3]
            ELSE LET render == e.row[filerow + 1].render
                     len0 == Len(render) - e.coloff
                     len == IF len0 < 0 THEN 0
                            ELSE IF len0 > e.screencols THEN e.screencols ELSE len0
                 IN  [part |-> "row", filerow |-> filerow,
                      text |-> SubSeq(render, e.coloff + 1, e.coloff + len),
                      welcome |-> FALSE]]

editorDrawStatusBar(e) ==
    [part |-> "status", lines |-> e.numrows, modified |-> e.dirty # 0, line |-> e.cy + 1]

editorDrawMessageBar(e) == [part |-> "message", msg |-> e.statusmsg]

\* The append buffer of editorRefreshScreen after editorScroll, part by part
\* in the order of the abAppend calls.
Frame(e) ==
    <<[part |-> "hide"], [part |-> "home"]>>
    \o editorDrawRows(e)
    \o <<editorDrawStatusBar(e), editorDrawMessageBar(e),
         [part |-> "place", row |-> (e.cy - e.rowoff) + 1, col |-> (e.rx - e.coloff) + 1],
         [part |-> "show"]>>

\* A variant of editorRefreshScreen that writes the rows and the bars first
\* and the cursor sequences in a second write.
editorRefreshScreenTwoWrites(e) ==
    LET s == editorScroll(e)
        f == Frame(s)
    IN  [s EXCEPT !.visits = <<>>,
                  !.written = <<SubSeq(f, 1, Len(f) - 2), SubSeq(f, Len(f) - 1, Len(f))>>]

\* editorRefreshScreen: editorScroll, the append buffer, and the write() calls
\* made, each with the buffer it was given (e.written).  The record of the
\* rows that editorUpdateSyntax visited (e.visits) ends with the frame.
editorRefreshScreen(e) ==
    LET s == editorScroll(e)
    IN  [s EXCEPT !.visits = <<>>, !.written = <<Frame(s)>>]

editorSetStatusMessage(e, msg) == [e EXCEPT !.statusmsg = msg]

(***************************************************************************)
(* Find.  s holds E and the callback's statics: last_match, direction,     *)
(* saved_hl_line and saved_hl (NULL when nothing is saved; a saved copy of *)
(* an empty hl restores nothing and is not told apart from NULL).          *)
(***************************************************************************)
\* A variant of FindRestore that frees the saved highlight without the memcpy.
FindRestoreWithoutCopy(s) == [s EXCEPT !.saved_hl = NULL]

\* s.touched collects the row indexes the callback uses; an index outside
\* E.row is undefined behaviour (E.ub) and the access is left out.
FindRestore(s) ==
    IF s.saved_hl # NULL
    THEN IF s.saved_hl_line < 0 \/ s.saved_hl_line >= s.E.numrows
         THEN [s EXCEPT !.touched = @ \cup {s.saved_hl_line}, !.E.ub = TRUE,
                        !.saved_hl = NULL]
         ELSE [s EXCEPT !.E.row[s.saved_hl_line + 1].hl =
                            [k \in 1..Len(s.E.row[s.saved_hl_line + 1].render) |->
                                IF k <= Len(s.saved_hl) THEN s.saved_hl[k] ELSE HL_NORMAL],
                        !.touched = @ \cup {s.saved_hl_line},
                        !.restored = <<[line |-> s.saved_hl_line,
                                        rsize |-> Len(s.E.row[s.saved_hl_line + 1].render),
                                        saved |-> s.saved_hl]>>,
                        !.saved_hl = NULL]
    ELSE s

\* A variant of FindLoop without the wrap from row 0 to the last row.
RECURSIVE FindLoopNoBackWrap(_, _, _, _)
FindLoopNoBackWrap(s, query, i, current) ==
    IF i >= s.E.numrows THEN s
    ELSE
    LET c1 == current + s.direction
        c2 == IF c1 = s.E.numrows THEN 0 ELSE c1
    IN  IF c2 < 0 \/ c2 >= s.E.numrows
        THEN [s EXCEPT !.touched = @ \cup {c2}, !.E.ub = TRUE]
        ELSE
        LET row == s.E.row[c2 + 1]
            match == StrStr(row.render, query)
        IN  IF match # -1
            THEN [s EXCEPT !.last_match = c2,
                           !.E.cy = c2,
                           !.E.cx = editorRowRxToCx(row, match),
                           !.E.rowoff = s.E.numrows,
                           !.saved_hl_line = c2,
                           !.saved_hl = row.hl,
                           !.touched = @ \cup {c2},
                           !.overlay = <<[line |-> c2, at |-> match, len |-> Len(query)]>>,
                           !.E.row[c2 + 1].hl = MemSet(row.hl, match, Len(query), HL_MATCH)]
            ELSE FindLoopNoBackWrap([s EXCEPT !.touched = @ \cup {c2}], query, i + 1, c2)

\* The search loop of editorFindCallback, for (i = 0; i < E.numrows; i++).
RECURSIVE FindLoop(_, _, _, _)
FindLoop(s, query, i, current) ==
    IF i >= s.E.numrows THEN s
    ELSE
    LET c1 == current + s.direction
        c2 == IF c1 = -1 THEN s.E.numrows - 1
              ELSE IF c1 = s.E.numrows THEN 0 ELSE c1
    IN  IF c2 < 0 \/ c2 >= s.E.numrows
        THEN [s EXCEPT !.touched = @ \cup {c2}, !.E.ub = TRUE]
        ELSE
        LET row == s.E.row[c2 + 1]
            match == StrStr(row.render, query)
        IN  IF match # -1
            THEN [s EXCEPT !.last_match = c2,
                           !.E.cy = c2,
                           !.E.cx = editorRowRxToCx(row, match),
                           !.E.rowoff = s.E.numrows,
                           !.saved_hl_line = c2,
                           !.saved_hl = row.hl,
                           !.touched = @ \cup {c2},
                           !.overlay = <<[line |-> c2, at |-> match, len |-> Len(query)]>>,
                           !.E.row[c2 + 1].hl = MemSet(row.hl, match, Len(query), HL_MATCH)]
            ELSE FindLoop([s EXCEPT !.touched = @ \cup {c2}], query, i + 1, c2)

\* A variant of editorFindCallback in which the arrow keys, like every other
\* key, restart the search: last_match is reset whatever the key.
editorFindCallbackRestarts(s, query, key) ==
    LET s1 == FindRestore(s)
    IN  IF key = CR \/ key = ESC
        THEN [s1 EXCEPT !.last_match = -1, !.direction = 1]
        ELSE FindLoop([s1 EXCEPT !.last_match = -1, !.direction = 1], query, 0, -1)

\* A variant of editorFindCallback in which the Left and Up arrows search
\* forward like Right and Down.
editorFindCallbackForwardOnly(s, query, key) ==
    LET s1 == FindRestore(s)
    IN  IF key = CR \/ key = ESC
        THEN [s1 EXCEPT !.last_match = -1, !.direction = 1]
        ELSE
        LET s2 == IF key \in {ARROW_RIGHT, ARROW_DOWN, ARROW_LEFT, ARROW_UP}
                  THEN [s1 EXCEPT !.direction = 1]
                  ELSE [s1 EXCEPT !.last_match = -1, !.direction = 1]
            s3 == IF s2.last_match = -1 THEN [s2 EXCEPT !.direction = 1] ELSE s2
        IN  FindLoop(s3, query, 0, s3.last_match)

editorFindCallback(s, query, key) ==
    LET s1 == FindRestore(s)
    IN  IF key = CR \/ key = ESC
        THEN [s1 EXCEPT !.last_match = -1, !.direction = 1]
        ELSE
        LET s2 == IF key = ARROW_RIGHT \/ key = ARROW_DOWN THEN [s1 EXCEPT !.direction = 1]
                  ELSE IF key = ARROW_LEFT \/ key = ARROW_UP THEN [s1 EXCEPT !.direction = -1]
                  ELSE [s1 EXCEPT !.last_match = -1, !.direction = 1]
            s3 == IF s2.last_match = -1 THEN [s2 EXCEPT !.direction = 1] ELSE s2
        IN  FindLoop(s3, query, 0, s3.last_match)

(***************************************************************************)
(* Terminal input.  input is what the coming read(STDIN_FILENO, , 1) calls *)
(* return, in order: a byte (0..255), or no byte: the read timed out and   *)
(* returned 0 (TIMEOUT), or returned -1 with errno EAGAIN or with another  *)
(* errno (EIO).  After the end of input every read times out.              *)
(***************************************************************************)
TIMEOUT == -1
EAGAIN == -2
EIO == -3

\* editorReadKey: the key returned, the input left, whether die("read") was
\* called, whether the first byte never came (the loop goes on), and whether
\* a read failed with an errno other than EAGAIN and the function returned.
editorReadKey(input) ==
    LET n == Len(input)
        At(i) == IF i <= n THEN input[i] ELSE TIMEOUT
        RECURSIVE First(_)
        First(i) ==
            IF i > n THEN 0
            ELSE IF input[i] >= 0 \/ input[i] = EIO THEN i
            ELSE First(i + 1)
        f == First(1)
        Ret(key, used) ==
            [key |-> key, rest |-> SubSeqFrom(input, IF used < n THEN used ELSE n),
             died |-> FALSE, blocked |-> FALSE,
             error |-> \E i \in (f + 1)..used : At(i) = EIO]
        seq0 == At(f + 1)
        seq1 == At(f + 2)
        seq2 == At(f + 3)
    IN  IF f = 0
        THEN [key |-> 0, rest |-> <<>>, died |-> FALSE, blocked |-> TRUE, error |-> FALSE]
        ELSE IF input[f] = EIO
        THEN [key |-> 0, rest |-> SubSeqFrom(input, f), died |-> TRUE, blocked |-> FALSE,
              error |-> TRUE]
        ELSE IF input[f] # ESC THEN Ret(input[f], f)
        ELSE IF seq0 < 0 THEN Ret(ESC, f + 1)
        ELSE IF seq1 < 0 THEN Ret(ESC, f + 2)
        ELSE IF seq0 = 91
        THEN IF seq1 >= 48 /\ seq1 <= 57
             THEN IF seq2 < 0 THEN Ret(ESC, f + 3)
                  ELSE IF seq2 = 126
                  THEN Ret(CASE seq1 = 49 -> HOME_KEY
                             [] seq1 = 51 -> DEL_KEY
                             [] seq1 = 52 -> END_KEY
                             [] seq1 = 53 -> PAGE_UP
                             [] seq1 = 54 -> PAGE_DOWN
                             [] seq1 = 55 -> HOME_KEY
                             [] seq1 = 56 -> END_KEY
                             [] OTHER -> ESC, f + 3)
                  ELSE Ret(ESC, f + 3)
             ELSE Ret(CASE seq1 = 65 -> ARROW_UP
                        [] seq1 = 66 -> ARROW_DOWN
                        [] seq1 = 67 -> ARROW_RIGHT
                        [] seq1 = 68 -> ARROW_LEFT
                        [] seq1 = 72 -> HOME_KEY
                        [] seq1 = 70 -> END_KEY
                        [] OTHER -> ESC, f + 2)
        ELSE IF seq0 = 79
        THEN Ret(CASE seq1 = 72 -> HOME_KEY
                   [] seq1 = 70 -> END_KEY
                   [] OTHER -> ESC, f + 2)
        ELSE Ret(ESC, f + 2)

\* sscanf's %d at s[i] (from 1), for text without blanks and signs: whether
\* digits were found, their value, and the position after them.
ScanInt(s, i) ==
    LET RECURSIVE Digits(_, _)
        Digits(j, val) ==
            IF j <= Len(s) /\ isdigit(s[j]) THEN Digits(j + 1, val * 10 + (s[j] - 48))
            ELSE [next |-> j, val |-> val]
        d == Digits(i, 0)
    IN  [ok |-> d.next > i, val |-> d.val, next |-> d.next]

\* getCursorPosition(rows, cols) when *rows and *cols hold rows0 and cols0:
\* the value returned, *rows and *cols afterwards, and the input left.  asked:
\* the write of the query transferred its 4 bytes.
getCursorPosition(rows0, cols0, asked, input) ==
    LET RECURSIVE Fill(_)
        \* the number of read() calls made, and whether the last one ended the
        \* loop on 'R'
        Fill(i) ==
            IF i >= 31 THEN [reads |-> i, len |-> i]
            ELSE IF i + 1 > Len(input) THEN [reads |-> i, len |-> i]
            ELSE IF input[i + 1] < 0 THEN [reads |-> i + 1, len |-> i]
            ELSE IF input[i + 1] = 82 THEN [reads |-> i + 1, len |-> i]
            ELSE Fill(i + 1)
        f == Fill(0)
        b == SubSeq(input, 1, f.len)
        rest == SubSeqFrom(input, f.reads)
        first == ScanInt(b, 3)
        second == ScanInt(b, first.next + 1)
        semicolon == first.ok /\ first.next <= Len(b) /\ b[first.next] = 59
    IN  IF ~asked
        THEN [ret |-> -1, rows |-> rows0, cols |-> cols0, rest |-> input]
        ELSE IF Len(b) < 2 \/ b[1] # ESC \/ b[2] # 91
        THEN [ret |-> -1, rows |-> rows0, cols |-> cols0, rest |-> rest]
        ELSE IF ~(semicolon /\ second.ok)
        THEN [ret |-> -1, rows |-> IF first.ok THEN first.val ELSE rows0, cols |-> cols0,
              rest |-> rest]
        ELSE [ret |-> -1, rows |-> first.val, cols |-> second.val, rest |-> rest]

\* getWindowSize(rows, cols).  ioctl_ok and ws: the outcome of the TIOCGWINSZ
\* ioctl; moved: the write of the two cursor moves transferred its 12 bytes.
getWindowSize(rows0, cols0, ioctl_ok, ws, moved, asked, input) ==
    IF ~ioctl_ok \/ ws.ws_col = 0
    THEN IF ~moved
         THEN [ret |-> -1, rows |-> rows0, cols |-> cols0, rest |-> input]
         ELSE getCursorPosition(rows0, cols0, asked, input)
    ELSE [ret |-> 0, rows |-> ws.ws_row, cols |-> ws.ws_col, rest |-> input]

(***************************************************************************)
(* State.                                                                  *)
(***************************************************************************)
VARIABLES
    E,              \* struct editorConfig E (without orig_termios), and ub
    pc,             \* where the process is: a step of main(), the key read of
                    \* the main loop ("main") or of editorPrompt ("find",
                    \* "saveas"), "exited", or "killed" by a signal
    argv,           \* argv[1], NULL when argc < 2
    tty,            \* what the coming read() calls on standard input return,
                    \* in order: a byte, or one of the outcomes without a byte
    termios,        \* the terminal's attributes and whether atexit() has
                    \* registered disableRawMode
    proc,           \* exit status and the call that ended the process
    disk,           \* the file named by argv[1] / E.filename
    quit_times,     \* static of editorProcessKeypress
    last_match,     \* statics of editorFindCallback
    direction,
    saved_hl_line,
    saved_hl,
    buf,            \* local of editorPrompt
    saved_cx,       \* locals of editorFind
    saved_cy,
    saved_coloff,
    saved_rowoff,
    last,           \* history: the last step taken
    presses,        \* history: Ctrl-Q presses in a row so far
    loaded,         \* history: the bytes editorOpen read
    hist            \* history: the editor state before the last Enter, or at
                    \* the entry of the find mode in progress or just left,
                    \* with the keys typed in find mode and the rows that
                    \* carried HL_MATCH after one of them

findStatics == <<last_match, direction, saved_hl_line, saved_hl>>
findLocals == <<saved_cx, saved_cy, saved_coloff, saved_rowoff>>
osVars == <<argv, tty, termios, proc, disk, loaded>>
vars == <<E, pc, argv, tty, termios, proc, disk, quit_times, last_match, direction,
          saved_hl_line, saved_hl, buf, saved_cx, saved_cy, saved_coloff,
          saved_rowoff, last, presses, loaded, hist>>

Msg(fmt, n, str) == [fmt |-> fmt, n |-> n, str |-> str]
NoMsg == Msg("", 0, <<>>)
NoHist == [tag |-> "none", E |-> <<>>, matched |-> {}, keys |-> <<>>]
Running == [status |-> -1, by |-> "none"]
NoDisk == [exists |-> FALSE, bytes |-> <<>>]

\* The assignments of initEditor before getWindowSize.
InitE ==
    [cx |-> 0, cy |-> 0, rx |-> 0, rowoff |-> 0, coloff |-> 0,
     screenrows |-> 0, screencols |-> 0, numrows |-> 0, row |-> <<>>,
     filename |-> NULL, dirty |-> 0, statusmsg |-> NoMsg, syntax |-> NULLSYN,
     ub |-> FALSE, visits |-> <<>>, written |-> <<>>]

\* initEditor when the ioctl reports ws.
initEditor(ws) ==
    [InitE EXCEPT !.screenrows = ws.ws_row - 2, !.screencols = ws.ws_col]

\* main() from editorOpen to the first editorRefreshScreen.
StartE(e, name, bytes) ==
    LET e1 == IF name # NULL THEN editorOpen(e, name, bytes) ELSE e
    IN  editorRefreshScreen(editorSetStatusMessage(e1, Msg("HELP", 0, <<>>)))

(***************************************************************************)
(* Process exit.  exit() runs disableRawMode when atexit() registered it;  *)
(* its tcsetattr restores the attributes or fails, and then die() ends the *)
(* process from within the handler.                                        *)
(***************************************************************************)
\* A variant of disableRawMode without the tcsetattr.
disableRawModeWithoutSet(t, ok) == t

\* The terminal after disableRawMode's tcsetattr, which succeeds (ok) or fails.
disableRawMode(t, ok) == IF ok THEN [t EXCEPT !.cur = "orig"] ELSE t

Exit(status, by) ==
    /\ pc' = "exited"
    /\ IF termios.atexit
       THEN \E ok \in BOOLEAN :
               /\ termios' = disableRawMode(termios, ok)
               /\ proc' = IF ok THEN [status |-> status, by |-> by]
                          ELSE [status |-> 1, by |-> "disableRawMode"]
       ELSE /\ termios' = termios
            /\ proc' = [status |-> status, by |-> by]

die(by) == Exit(1, by)

(***************************************************************************)
(* Start-up: the steps of main() before the loop.                          *)
(***************************************************************************)
EnableRawMode ==
    /\ pc = "enableRawMode"
    /\ \E got \in BOOLEAN, set \in BOOLEAN :
          IF ~got
          THEN /\ die("tcgetattr")
               /\ last' = "die"
          ELSE IF ~set
          THEN /\ pc' = "exited"
               /\ \E ok \in BOOLEAN :
                     /\ termios' = disableRawMode([termios EXCEPT !.atexit = TRUE], ok)
                     /\ proc' = [status |-> 1,
                                 by |-> IF ok THEN "tcsetattr" ELSE "disableRawMode"]
               /\ last' = "die"
          ELSE /\ termios' = [cur |-> "raw", atexit |-> TRUE]
               /\ pc' = "initEditor"
               /\ proc' = proc
               /\ last' = "enableRawMode"
    /\ UNCHANGED <<E, argv, tty, disk, loaded, quit_times, findStatics, findLocals, buf,
                   presses, hist>>

\* initEditor.  sizes: what the TIOCGWINSZ ioctl may report; the reply to
\* the cursor-position query is what the terminal has pending in tty.  hist
\* keeps the outcomes of the system calls and the input before the call.
InitEditor(sizes) ==
    /\ pc = "initEditor"
    /\ \E ioctl_ok \in BOOLEAN, ws \in sizes \cup {[ws_row |-> 0, ws_col |-> 0]},
          moved \in BOOLEAN, asked \in BOOLEAN :
          LET r == getWindowSize(InitE.screenrows, InitE.screencols,
                                 ioctl_ok, ws, moved, asked, tty)
          IN  /\ (ioctl_ok /\ ws.ws_col # 0) => (moved /\ asked)
              /\ ~moved => asked
              /\ tty' = r.rest
              /\ hist' = [tag |-> "getWindowSize", E |-> <<>>, matched |-> {},
                          keys |-> tty, fallback |-> ~ioctl_ok \/ ws.ws_col = 0,
                          moved |-> moved, asked |-> asked]
              /\ IF r.ret # -1
                 THEN /\ E' = [InitE EXCEPT !.screenrows = r.rows - 2, !.screencols = r.cols]
                      /\ pc' = "editorOpen"
                      /\ last' = "initEditor"
                      /\ UNCHANGED <<termios, proc>>
                 ELSE /\ E' = [InitE EXCEPT !.screenrows = r.rows, !.screencols = r.cols]
                      /\ die("getWindowSize")
                      /\ last' = "die"
    /\ UNCHANGED <<argv, disk, loaded, quit_times, findStatics, findLocals, buf,
                   presses>>

EditorOpen ==
    /\ pc = "editorOpen"
    /\ IF argv # NULL /\ ~disk.exists
       THEN /\ E' = editorSelectSyntaxHighlight([E EXCEPT !.filename = argv])
            /\ die("fopen")
            /\ last' = "die"
            /\ loaded' = loaded
       ELSE /\ E' = StartE(E, argv, disk.bytes)
            /\ pc' = "main"
            /\ last' = "editorOpen"
            /\ loaded' = IF argv # NULL THEN disk.bytes ELSE <<>>
            /\ UNCHANGED <<termios, proc>>
    /\ hist' = NoHist
    /\ UNCHANGED <<argv, tty, disk, quit_times, findStatics, findLocals, buf,
                   presses>>

(***************************************************************************)
(* The main loop.  A state with pc = "main" is the key read of             *)
(* editorProcessKeypress; each action is the handling of one key followed  *)
(* by the loop's next editorRefreshScreen.                                 *)
(***************************************************************************)
AtKey == pc = "main"

\* The end of editorProcessKeypress after a break, then the loop's refresh.
\* When the handler indexed E.row out of range (e1.ub), what follows is not
\* defined by the language: either the stray access hit nothing the editor
\* uses and the handler completes, or the process is killed by a signal where
\* it stands.
MainDone(e1, op, h) ==
    /\ IF e1.ub
       THEN \E survives \in BOOLEAN :
               IF survives
               THEN E' = editorRefreshScreen([e1 EXCEPT !.ub = FALSE]) /\ pc' = "main"
               ELSE E' = [e1 EXCEPT !.visits = <<>>, !.written = <<>>] /\ pc' = "killed"
       ELSE E' = editorRefreshScreen(e1) /\ pc' = "main"
    /\ quit_times' = KILO_QUIT_TIMES
    /\ last' = op
    /\ presses' = 0
    /\ hist' = h

KeyEnter ==
    /\ AtKey
    /\ E.numrows < MaxRows
    /\ MainDone(editorInsertNewLine(E), "Enter", [NoHist EXCEPT !.tag = "enter", !.E = E])
    /\ UNCHANGED <<osVars, findStatics, findLocals, buf>>

\* A variant of KeyCtrlQ whose guard test is quit_times > 1.
KeyCtrlQOffByOne ==
    /\ AtKey
    /\ presses' = presses + 1
    /\ last' = "CtrlQ"
    /\ hist' = NoHist
    /\ IF E.dirty # 0 /\ quit_times > 1
       THEN /\ E' = editorRefreshScreen(
                       editorSetStatusMessage(E, Msg("Warning", quit_times, <<>>)))
            /\ quit_times' = quit_times - 1
            /\ UNCHANGED <<pc, termios, proc>>
       ELSE /\ Exit(0, "quit")
            /\ UNCHANGED <<E, quit_times>>
    /\ UNCHANGED <<argv, tty, disk, loaded, findStatics, findLocals, buf>>

KeyCtrlQ ==
    /\ AtKey
    /\ presses' = presses + 1
    /\ last' = "CtrlQ"
    /\ hist' = NoHist
    /\ IF E.dirty # 0 /\ quit_times > 0
       THEN /\ E' = editorRefreshScreen(
                       editorSetStatusMessage(E, Msg("Warning", quit_times, <<>>)))
            /\ quit_times' = quit_times - 1
            /\ UNCHANGED <<pc, termios, proc>>
       ELSE /\ Exit(0, "quit")
            /\ UNCHANGED <<E, quit_times>>
    /\ UNCHANGED <<argv, tty, disk, loaded, findStatics, findLocals, buf>>

\* editorSave from editorRowsToString on.  outcome is what the system calls do:
\* open fails; ftruncate fails; write fails having written nothing, or writes
\* only the first byte; or all three succeed.
SaveOutcomes == {"open", "ftruncate", "write", "short", "ok"}

SaveDisk(e, outcome) ==
    LET out == editorRowsToString(e)
        opened == IF disk.exists THEN disk.bytes ELSE <<>>
        cut == [k \in 1..Len(out) |-> IF k <= Len(opened) THEN opened[k] ELSE 0]
    IN  IF outcome = "open" THEN disk
        ELSE IF outcome = "ftruncate" THEN [exists |-> TRUE, bytes |-> opened]
        ELSE IF outcome = "write" THEN [exists |-> TRUE, bytes |-> cut]
        ELSE IF outcome = "short"
        THEN [exists |-> TRUE, bytes |-> [k \in 1..Len(out) |-> IF k <= 1 THEN out[k] ELSE cut[k]]]
        ELSE [exists |-> TRUE, bytes |-> out]

\* A variant of SaveE without E.dirty = 0.
SaveEKeepsDirty(e, outcome) ==
    IF outcome = "ok"
    THEN editorSetStatusMessage(e, Msg("bytes written", Len(editorRowsToString(e)), <<>>))
    ELSE editorSetStatusMessage(e, Msg("Could not save", 0, <<>>))

\* A variant of SaveE with E.dirty = 0 on every path.
SaveEResetsDirty(e, outcome) ==
    IF outcome = "ok"
    THEN editorSetStatusMessage([e EXCEPT !.dirty = 0],
                                Msg("bytes written", Len(editorRowsToString(e)), <<>>))
    ELSE editorSetStatusMessage([e EXCEPT !.dirty = 0], Msg("Could not save", 0, <<>>))

SaveE(e, outcome) ==
    IF outcome = "ok"
    THEN editorSetStatusMessage([e EXCEPT !.dirty = 0],
                                Msg("bytes written", Len(editorRowsToString(e)), <<>>))
    ELSE editorSetStatusMessage(e, Msg("Could not save", 0, <<>>))

KeyCtrlS(outcomes) ==
    /\ AtKey
    /\ IF E.filename = NULL
       THEN /\ pc' = "saveas"
            /\ buf' = <<>>
            /\ E' = editorRefreshScreen(editorSetStatusMessage(E, Msg("Save as", 0, <<>>)))
            /\ last' = "CtrlS"
            /\ presses' = 0
            /\ UNCHANGED <<disk, quit_times>>
       ELSE /\ \E outcome \in outcomes :
                 /\ outcome = "short" => Len(editorRowsToString(E)) > 1
                 /\ disk' = SaveDisk(E, outcome)
                 /\ E' = editorRefreshScreen(SaveE(E, outcome))
                 /\ last' = IF outcome = "ok" THEN "Save" ELSE "SaveFailed"
                 /\ quit_times' = KILO_QUIT_TIMES
                 /\ presses' = 0
            /\ UNCHANGED <<pc, buf>>
    /\ hist' = NoHist
    /\ UNCHANGED <<argv, tty, termios, proc, loaded, findStatics, findLocals>>

KeyHome ==
    /\ AtKey
    /\ MainDone([E EXCEPT !.cx = 0], "Home", NoHist)
    /\ UNCHANGED <<osVars, findStatics, findLocals, buf>>

KeyEnd ==
    /\ AtKey
    /\ MainDone(IF E.cy < E.numrows THEN [E EXCEPT !.cx = Len(E.row[E.cy + 1].chars)] ELSE E,
                "End", NoHist)
    /\ UNCHANGED <<osVars, findStatics, findLocals, buf>>

KeyCtrlF ==
    /\ AtKey
    /\ saved_cx' = E.cx
    /\ saved_cy' = E.cy
    /\ saved_coloff' = E.coloff
    /\ saved_rowoff' = E.rowoff
    /\ pc' = "find"
    /\ buf' = <<>>
    /\ E' = editorRefreshScreen(editorSetStatusMessage(E, Msg("Search", 0, <<>>)))
    /\ last' = "CtrlF"
    /\ presses' = 0
    /\ hist' = [NoHist EXCEPT !.tag = "find", !.E = E]
    /\ UNCHANGED <<osVars, quit_times, findStatics>>

\* BACKSPACE, Ctrl-H and DEL_KEY.
DeleteKeys == {BACKSPACE, CTRL_KEY(104), DEL_KEY}

KeyDelete(c) ==
    /\ AtKey
    /\ c \in DeleteKeys
    /\ MainDone(editorDelChar(IF c = DEL_KEY THEN editorMoveCursor(E, ARROW_RIGHT) ELSE E),
                IF c = DEL_KEY THEN "Delete" ELSE "Backspace",
                IF hist.tag = "enter" THEN [hist EXCEPT !.tag = "enter-delete"] ELSE NoHist)
    /\ UNCHANGED <<osVars, findStatics, findLocals, buf>>

\* while (times--) editorMoveCursor(key)
RECURSIVE MoveTimes(_, _, _)
MoveTimes(e, key, times) ==
    IF times = 0 THEN e ELSE MoveTimes(editorMoveCursor(e, key), key, times - 1)

KeyPage(c) ==
    /\ AtKey
    /\ c \in {PAGE_UP, PAGE_DOWN}
    /\ E.screenrows >= 0
    /\ LET e1 == IF c = PAGE_UP THEN [E EXCEPT !.cy = E.rowoff]
                 ELSE LET down == E.rowoff + E.screenrows - 1
                      IN  [E EXCEPT !.cy = IF down > E.numrows THEN E.numrows ELSE down]
       IN  MainDone(MoveTimes(e1, IF c = PAGE_UP THEN ARROW_UP ELSE ARROW_DOWN, E.screenrows),
                    "Page", NoHist)
    /\ UNCHANGED <<osVars, findStatics, findLocals, buf>>

ArrowKeys == {ARROW_LEFT, ARROW_RIGHT, ARROW_UP, ARROW_DOWN}

KeyArrow(c) ==
    /\ AtKey
    /\ c \in ArrowKeys
    /\ MainDone(editorMoveCursor(E, c), "Arrow", NoHist)
    /\ UNCHANGED <<osVars, findStatics, findLocals, buf>>

\* Ctrl-L and ESC: the cases that only break.
KeyNoop(c) ==
    /\ AtKey
    /\ c \in {CTRL_KEY(108), ESC}
    /\ MainDone(E, "Noop", NoHist)
    /\ UNCHANGED <<osVars, findStatics, findLocals, buf>>

\* The keys with a case of their own in editorProcessKeypress.
BoundKeys ==
    {CR, CTRL_KEY(113), CTRL_KEY(115), HOME_KEY, END_KEY, CTRL_KEY(102),
     PAGE_UP, PAGE_DOWN, CTRL_KEY(108), ESC} \cup DeleteKeys \cup ArrowKeys

\* default: editorInsertChar(c)
KeyChar(c) ==
    /\ AtKey
    /\ c \notin BoundKeys
    /\ IF E.cy = E.numrows THEN E.numrows < MaxRows
       ELSE Len(E.row[E.cy + 1].chars) < MaxLen
    /\ MainDone(editorInsertChar(E, c), "Char", NoHist)
    /\ UNCHANGED <<osVars, findStatics, findLocals, buf>>

\* The switch of editorProcessKeypress on key c, for every key but Ctrl-Q,
\* Ctrl-S and Ctrl-F (whose cases leave the function or wait for more keys).
editorProcessKeypress(e, c) ==
    IF c = CR THEN editorInsertNewLine(e)
    ELSE IF c = HOME_KEY THEN [e EXCEPT !.cx = 0]
    ELSE IF c = END_KEY
    THEN IF e.cy < e.numrows THEN [e EXCEPT !.cx = Len(e.row[e.cy + 1].chars)] ELSE e
    ELSE IF c \in DeleteKeys
    THEN editorDelChar(IF c = DEL_KEY THEN editorMoveCursor(e, ARROW_RIGHT) ELSE e)
    ELSE IF c = PAGE_UP
    THEN MoveTimes([e EXCEPT !.cy = e.rowoff], ARROW_UP, e.screenrows)
    ELSE IF c = PAGE_DOWN
    THEN LET down == e.rowoff + e.screenrows - 1
         IN  MoveTimes([e EXCEPT !.cy = IF down > e.numrows THEN e.numrows ELSE down],
                       ARROW_DOWN, e.screenrows)
    ELSE IF c \in ArrowKeys THEN editorMoveCursor(e, c)
    ELSE IF c \in {CTRL_KEY(108), ESC} THEN e
    ELSE editorInsertChar(e, c)

\* One turn of the main loop on terminal input: editorReadKey on tty, the
\* switch on the key it returns, and the loop's editorRefreshScreen, whose
\* write of the frame succeeds or fails (wrote); its result is not looked at.
\* hist keeps the state before, the input consumed and the key decoded.
Keypress(frames) ==
    /\ AtKey
    /\ tty # <<>>
    /\ LET r == editorReadKey(tty)
       IN  /\ ~r.blocked
           /\ tty' = r.rest
           /\ IF r.died
              THEN /\ die("read")
                   /\ last' = "die"
                   /\ UNCHANGED <<E, quit_times, presses, hist>>
              ELSE /\ r.key \notin {CTRL_KEY(113), CTRL_KEY(115), CTRL_KEY(102)}
                   /\ E.screenrows >= 0
                   /\ \E wrote \in frames :
                         MainDone(editorProcessKeypress(E, r.key), "Keypress",
                                  [tag |-> "key", E |-> E, matched |-> {},
                                   keys |-> SubSeq(tty, 1, Len(tty) - Len(r.rest)),
                                   key |-> r.key, read_error |-> r.error,
                                   wrote |-> wrote,
                                   visits |-> editorProcessKeypress(E, r.key).visits])
                   /\ UNCHANGED <<termios, proc>>
    /\ UNCHANGED <<argv, disk, loaded, findStatics, findLocals, buf>>

\* editorReadKey: read() fails with an errno other than EAGAIN.
ReadFail ==
    /\ pc \in {"main", "find", "saveas"}
    /\ die("read")
    /\ last' = "die"
    /\ UNCHANGED <<E, argv, tty, disk, loaded, quit_times, findStatics, findLocals, buf,
                   presses, hist>>

(***************************************************************************)
(* editorPrompt.  A state with pc = "find" or "saveas" is the key read of  *)
(* the prompt's loop; each action handles one key, calls the callback and  *)
(* either goes round the loop (status message, refresh) or returns to the  *)
(* caller, whose remaining code runs up to the main loop's refresh.        *)
(***************************************************************************)
InPrompt ==
    /\ pc \in {"find", "saveas"}
    /\ pc = "find" => Len(hist.keys) < MaxKeys

\* E and the statics as the callback finds them; touched, restored and
\* overlay record what one call of the callback does: the row indexes it uses,
\* the memcpy of the saved highlight and the memset of HL_MATCH.
FindState(e) ==
    [E |-> e, last_match |-> last_match, direction |-> direction,
     saved_hl_line |-> saved_hl_line, saved_hl |-> saved_hl,
     touched |-> {}, restored |-> <<>>, overlay |-> <<>>]

\* if (callback) callback(buf, c): editorFindCallback for editorFind, NULL for
\* editorSave.
Callback(e, query, key) ==
    IF pc = "find" THEN editorFindCallback(FindState(e), query, key) ELSE FindState(e)

SetStatics(r) ==
    /\ last_match' = r.last_match
    /\ direction' = r.direction
    /\ saved_hl_line' = r.saved_hl_line
    /\ saved_hl' = r.saved_hl

PromptMsg(b) == Msg(IF pc = "find" THEN "Search" ELSE "Save as", 0, b)

\* The rows (array positions) whose hl holds HL_MATCH.
MatchRows(e) ==
    {p \in 0..(Len(e.row) - 1) : \E k \in 1..Len(e.row[p + 1].hl) : e.row[p + 1].hl[k] = HL_MATCH}

\* The callback at the end of the loop body, and the start of the next round.
PromptLoop(r, b, c, op) ==
    /\ E' = editorRefreshScreen(editorSetStatusMessage(r.E, PromptMsg(b)))
    /\ SetStatics(r)
    /\ buf' = b
    /\ last' = op
    /\ hist' = IF pc = "find"
               THEN [hist EXCEPT !.keys = Append(@, c),
                                 !.matched = @ \cup MatchRows(r.E)]
               ELSE hist
    /\ UNCHANGED <<pc, osVars, quit_times, presses, findLocals>>

\* The locals of editorPrompt and editorFind end with the call.
PromptReturns ==
    /\ buf' = <<>>
    /\ saved_cx' = 0
    /\ saved_cy' = 0
    /\ saved_coloff' = 0
    /\ saved_rowoff' = 0

PromptDelete(c) ==
    /\ InPrompt
    /\ c \in DeleteKeys
    /\ LET b == IF Len(buf) # 0 THEN SubSeq(buf, 1, Len(buf) - 1) ELSE buf
       IN  PromptLoop(Callback(E, b, c), b, c, "PromptDelete")

\* A variant of FindCancelled that puts back the cursor and not the viewport.
FindCancelledCursorOnly(e) == [e EXCEPT !.cx = saved_cx, !.cy = saved_cy]

\* editorFind after editorPrompt returned NULL: the saved cursor and viewport
\* are put back.
FindCancelled(e) ==
    [e EXCEPT !.cx = saved_cx, !.cy = saved_cy,
              !.coloff = saved_coloff, !.rowoff = saved_rowoff]

PromptEsc ==
    /\ pc \in {"find", "saveas"}
    /\ LET r == Callback(editorSetStatusMessage(E, NoMsg), buf, ESC)
       IN  /\ SetStatics(r)
           /\ IF pc = "find"
              THEN MainDone(FindCancelled(r.E), "FindEsc", [hist EXCEPT !.tag = "find-esc"])
              ELSE MainDone(editorSetStatusMessage(r.E, Msg("Save aborted", 0, <<>>)),
                            "SaveAborted", NoHist)
    /\ PromptReturns
    /\ UNCHANGED osVars

PromptEnter(outcomes) ==
    /\ pc \in {"find", "saveas"}
    /\ Len(buf) = 0 => InPrompt
    /\ IF Len(buf) # 0
       THEN LET r == Callback(editorSetStatusMessage(E, NoMsg), buf, CR)
            IN  /\ SetStatics(r)
                /\ PromptReturns
                /\ IF pc = "find"
                   THEN /\ MainDone(r.E, "FindEnter", [hist EXCEPT !.tag = "find-enter"])
                        /\ UNCHANGED disk
                   ELSE LET e1 == editorSelectSyntaxHighlight([r.E EXCEPT !.filename = buf])
                        IN  \E outcome \in outcomes :
                               /\ outcome = "short" => Len(editorRowsToString(e1)) > 1
                               /\ disk' = SaveDisk(e1, outcome)
                               /\ MainDone(SaveE(e1, outcome),
                                           IF outcome = "ok" THEN "Save" ELSE "SaveFailed",
                                           NoHist)
                /\ UNCHANGED <<argv, tty, termios, proc, loaded>>
       ELSE PromptLoop(Callback(E, buf, CR), buf, CR, "PromptEnter")

\* else if (!iscntrl(c) && c < 128)
PromptChar(c) ==
    /\ InPrompt
    /\ c \notin DeleteKeys /\ c # ESC /\ c # CR
    /\ ~iscntrl(c) /\ c < 128
    /\ Len(buf) < MaxQuery
    /\ PromptLoop(Callback(E, Append(buf, c), c), Append(buf, c), c, "PromptChar")

\* Any other key changes nothing in the prompt and reaches the callback.
PromptOther(c) ==
    /\ InPrompt
    /\ c \notin DeleteKeys /\ c # ESC /\ c # CR
    /\ iscntrl(c) \/ c >= 128
    /\ PromptLoop(Callback(E, buf, c), buf, c, "PromptOther")

\* A variant of editorPrompt that leaves out the callback on the round that
\* returns the buffer.
editorPromptSilentAccept(s, b, c, callback) ==
    LET Call(st, bb) ==
            [s |-> IF callback THEN editorFindCallback(st, bb, c) ELSE st,
             events |-> IF callback THEN <<[ev |-> "callback", buf |-> bb, key |-> c]>>
                        ELSE <<>>]
        Cleared == [s EXCEPT !.E = editorSetStatusMessage(@, NoMsg)]
        Open(r, bb) == [s |-> r.s, buf |-> bb, events |-> r.events, ret |-> "open"]
        Return(r, kind, val) ==
            [s |-> r.s, buf |-> val, ret |-> kind,
             events |-> Append(r.events, [ev |-> "return", buf |-> val, key |-> c])]
    IN  IF c \in DeleteKeys
        THEN LET b1 == IF Len(b) # 0 THEN SubSeq(b, 1, Len(b) - 1) ELSE b
             IN  Open(Call(s, b1), b1)
        ELSE IF c = ESC THEN Return(Call(Cleared, b), "NULL", NULL)
        ELSE IF c = CR
        THEN IF Len(b) # 0 THEN Return([s |-> Cleared, events |-> <<>>], "buf", b)
             ELSE Open(Call(s, b), b)
        ELSE IF ~iscntrl(c) /\ c < 128 THEN Open(Call(s, Append(b, c)), Append(b, c))
        ELSE Open(Call(s, b), b)

\* A variant of editorPrompt in which ESC returns the buffer when it is not
\* empty.
editorPromptEscAccepts(s, b, c, callback) ==
    LET Call(st, bb) ==
            [s |-> IF callback THEN editorFindCallback(st, bb, c) ELSE st,
             events |-> IF callback THEN <<[ev |-> "callback", buf |-> bb, key |-> c]>>
                        ELSE <<>>]
        Cleared == [s EXCEPT !.E = editorSetStatusMessage(@, NoMsg)]
        Open(r, bb) == [s |-> r.s, buf |-> bb, events |-> r.events, ret |-> "open"]
        Return(r, kind, val) ==
            [s |-> r.s, buf |-> val, ret |-> kind,
             events |-> Append(r.events, [ev |-> "return", buf |-> val, key |-> c])]
    IN  IF c \in DeleteKeys
        THEN LET b1 == IF Len(b) # 0 THEN SubSeq(b, 1, Len(b) - 1) ELSE b
             IN  Open(Call(s, b1), b1)
        ELSE IF c = ESC /\ Len(b) = 0 THEN Return(Call(Cleared, b), "NULL", NULL)
        ELSE IF c = CR \/ c = ESC
        THEN IF Len(b) # 0 THEN Return(Call(Cleared, b), "buf", b)
             ELSE Open(Call(s, b), b)
        ELSE IF ~iscntrl(c) /\ c < 128 THEN Open(Call(s, Append(b, c)), Append(b, c))
        ELSE Open(Call(s, b), b)

\* One round of editorPrompt's while loop after editorReadKey returned c, with
\* buf holding b: the state afterwards (s: E and the callback's statics), the
\* buffer, whether the function returned (NULL or the buffer) or the loop
\* goes on, and the calls of the callback and the return in the order in
\* which they happen.  callback: the function pointer is not NULL.
editorPrompt(s, b, c, callback) ==
    LET Call(st, bb) ==
            [s |-> IF callback THEN editorFindCallback(st, bb, c) ELSE st,
             events |-> IF callback THEN <<[ev |-> "callback", buf |-> bb, key |-> c]>>
                        ELSE <<>>]
        Cleared == [s EXCEPT !.E = editorSetStatusMessage(@, NoMsg)]
        Open(r, bb) == [s |-> r.s, buf |-> bb, events |-> r.events, ret |-> "open"]
        Return(r, kind, val) ==
            [s |-> r.s, buf |-> val, ret |-> kind,
             events |-> Append(r.events, [ev |-> "return", buf |-> val, key |-> c])]
    IN  IF c \in DeleteKeys
        THEN LET b1 == IF Len(b) # 0 THEN SubSeq(b, 1, Len(b) - 1) ELSE b
             IN  Open(Call(s, b1), b1)
        ELSE IF c = ESC THEN Return(Call(Cleared, b), "NULL", NULL)
        ELSE IF c = CR
        THEN IF Len(b) # 0 THEN Return(Call(Cleared, b), "buf", b)
             ELSE Open(Call(s, b), b)
        ELSE IF ~iscntrl(c) /\ c < 128 THEN Open(Call(s, Append(b, c)), Append(b, c))
        ELSE Open(Call(s, b), b)

\* A key read by editorPrompt, whatever the key: the round of the loop, then
\* either the next round's status message and refresh, or the rest of
\* editorFind or editorSave and of editorProcessKeypress after the return.
\* hist keeps the state and the buffer before the key, and what the round did.
PromptKey(c, outcomes) ==
    /\ pc \in {"find", "saveas"}
    /\ LET r == editorPrompt(FindState(E), buf, c, pc = "find")
           h == [tag |-> "prompt", E |-> E, matched |-> {}, keys |-> <<c>>,
                 mode |-> pc, buf |-> buf, events |-> r.events, ret |-> r.ret,
                 value |-> r.buf, touched |-> r.s.touched, restored |-> r.s.restored,
                 overlay |-> r.s.overlay]
       IN  /\ SetStatics(r.s)
           /\ IF r.ret = "open"
              THEN /\ E' = editorRefreshScreen(editorSetStatusMessage(r.s.E, PromptMsg(r.buf)))
                   /\ buf' = r.buf
                   /\ last' = "PromptKey"
                   /\ hist' = h
                   /\ UNCHANGED <<pc, disk, quit_times, presses, findLocals>>
              ELSE /\ PromptReturns
                   /\ IF pc = "find"
                      THEN /\ MainDone(IF r.ret = "NULL" THEN FindCancelled(r.s.E) ELSE r.s.E,
                                       "PromptKey", h)
                           /\ UNCHANGED disk
                      ELSE IF r.ret = "NULL"
                      THEN /\ MainDone(editorSetStatusMessage(r.s.E, Msg("Save aborted", 0, <<>>)),
                                       "PromptKey", h)
                           /\ UNCHANGED disk
                      ELSE LET e1 == editorSelectSyntaxHighlight([r.s.E EXCEPT !.filename = r.buf])
                           IN  \E outcome \in outcomes :
                                  /\ outcome = "short" => Len(editorRowsToString(e1)) > 1
                                  /\ disk' = SaveDisk(e1, outcome)
                                  /\ MainDone(SaveE(e1, outcome), "PromptKey", h)
    /\ UNCHANGED <<argv, tty, termios, proc, loaded>>

(***************************************************************************)
(* The editor from process start, over a one-letter alphabet.              *)
(***************************************************************************)
WinSizes == {[ws_row |-> 4, ws_col |-> 3]}
Letters == {97}
FileBytes(alphabet, n) == UNION {[1..k -> alphabet] : k \in 0..n}

Init ==
    /\ pc = "enableRawMode"
    /\ E = InitE
    /\ argv \in {NULL, <<97>>}
    /\ tty = <<>>
    /\ disk \in {NoDisk} \cup {[exists |-> TRUE, bytes |-> b] : b \in {<<>>, <<97, LF>>}}
    /\ termios = [cur |-> "orig", atexit |-> FALSE]
    /\ proc = Running
    /\ quit_times = KILO_QUIT_TIMES
    /\ last_match = -1
    /\ direction = 1
    /\ saved_hl_line = 0
    /\ saved_hl = NULL
    /\ buf = <<>>
    /\ saved_cx = 0
    /\ saved_cy = 0
    /\ saved_coloff = 0
    /\ saved_rowoff = 0
    /\ last = "start"
    /\ presses = 0
    /\ loaded = <<>>
    /\ hist = NoHist

Next ==
    \/ EnableRawMode
    \/ InitEditor(WinSizes)
    \/ EditorOpen
    \/ ReadFail
    \/ E.dirty < MaxDirty /\ KeyEnter
    \/ KeyCtrlQ
    \/ KeyCtrlS({"ok", "open"})
    \/ \E c \in {BACKSPACE} : E.dirty < MaxDirty /\ KeyDelete(c)
    \/ \E c \in {ESC} : KeyNoop(c)
    \/ \E c \in Letters : E.dirty < MaxDirty /\ KeyChar(c)
    \/ \E c \in {BACKSPACE} : PromptDelete(c)
    \/ PromptEsc
    \/ PromptEnter({"ok", "open"})
    \/ \E c \in Letters : PromptChar(c)

Spec == Init /\ [][Next]_vars

(***************************************************************************)
(* Properties of the editor from process start (Spec).                     *)
(***************************************************************************)
\* The text of the buffer: the chars of every row, in row-store order.
Text(e) == [k \in 1..Len(e.row) |-> e.row[k].chars]

\* C3 (state part): after k Ctrl-Q presses in a row on a dirty buffer the
\* editor is still running for k <= 3, with the guard at 3 - k and the warning
\* shown, and has exited at k = 4; on a clean buffer the first press exits; and
\* after any other top-level key the guard is back at KILO_QUIT_TIMES.
QuitGuardInv ==
    /\ (last = "CtrlQ" /\ E.dirty # 0 /\ presses <= KILO_QUIT_TIMES)
          => /\ pc = "main"
             /\ quit_times = KILO_QUIT_TIMES - presses
             /\ E.statusmsg = Msg("Warning", KILO_QUIT_TIMES - presses + 1, <<>>)
    /\ (last = "CtrlQ" /\ E.dirty # 0 /\ presses > KILO_QUIT_TIMES)
          => pc = "exited" /\ presses = KILO_QUIT_TIMES + 1
    /\ (last = "CtrlQ" /\ E.dirty = 0) => pc = "exited" /\ presses = 1
    /\ (pc = "main" /\ last # "CtrlQ") => quit_times = KILO_QUIT_TIMES

\* C3 (step part): a Ctrl-Q that does not exit changes neither the buffer
\* nor the cursor nor the dirty counter.
QuitGuardFrame ==
    (last' = "CtrlQ" /\ pc' = "main")
       => /\ E'.row = E.row /\ E'.numrows = E.numrows /\ E'.dirty = E.dirty
          /\ E'.cx = E.cx /\ E'.cy = E.cy

\* C3: the quit guard lets the editor exit on the k-th Ctrl-Q in a row on a
\* dirty buffer iff k > 3, presses 1..3 only decrement the guard and warn, any
\* other key resets the guard to 3, and a clean buffer exits on the first press.
C3_QuitGuard == []QuitGuardInv /\ [][QuitGuardFrame]_vars

C3_Witness ==
    pc = "exited" /\ last = "CtrlQ" /\ presses = KILO_QUIT_TIMES + 1 /\ E.dirty # 0
    /\ proc.by = "quit"

\* C4 (step part): a step that changes the buffer text, other than the file
\* load, leaves the dirty counter positive; and the counter decreases only by
\* being reset to 0 by a successful save.
DirtyStep ==
    /\ (Text(E') # Text(E) /\ last' # "editorOpen") => E'.dirty > 0
    /\ E'.dirty < E.dirty => (E'.dirty = 0 /\ last' = "Save")

\* C4: the dirty counter is 0 after a load and after a successful save, is
\* positive after every operation that mutates the buffer, and never decreases
\* except by the reset of a successful save or a load.
C4_DirtyAccounting ==
    [](last \in {"Save", "editorOpen"} => E.dirty = 0) /\ [][DirtyStep]_vars

C4_Witness ==
    last = "Save" /\ E.dirty = 0 /\ disk.bytes # loaded /\ E.numrows > 1

\* C6: when the process has exited on one of the paths that follow a
\* successful enableRawMode (orderly quit, fatal read, fopen failure of the
\* initial file, window-size failure), the terminal has its original
\* attributes again.  (When the restoring tcsetattr itself fails, die ends the
\* process from within disableRawMode, and proc.by says so.)
C6_TerminalRestored ==
    (pc = "exited" /\ proc.by \in {"quit", "read", "fopen", "getWindowSize"})
       => termios.atexit /\ termios.cur = "orig"

C6_Witness ==
    pc = "exited" /\ proc.by = "read" /\ termios.cur = "orig" /\ E.dirty # 0

(***************************************************************************)
(* Editing a C file (SpecEdit): the editor at its first key read after     *)
(* loading a file whose name selects the C profile, then edits and cursor  *)
(* moves over the characters of comment delimiters.                        *)
(***************************************************************************)
\* The state at the first key read of the main loop, when start-up succeeded
\* with window size ws and a file name and content (name = NULL: no argument),
\* and the terminal is about to deliver input.
InitMainTty(name, bytes, ws, input) ==
    /\ pc = "main"
    /\ tty = input
    /\ E = StartE(initEditor(ws), name, bytes)
    /\ argv = name
    /\ disk = IF name # NULL THEN [exists |-> TRUE, bytes |-> bytes] ELSE NoDisk
    /\ termios = [cur |-> "raw", atexit |-> TRUE]
    /\ proc = Running
    /\ quit_times = KILO_QUIT_TIMES
    /\ last_match = -1
    /\ direction = 1
    /\ saved_hl_line = 0
    /\ saved_hl = NULL
    /\ buf = <<>>
    /\ saved_cx = 0
    /\ saved_cy = 0
    /\ saved_coloff = 0
    /\ saved_rowoff = 0
    /\ last = "editorOpen"
    /\ presses = 0
    /\ loaded = IF name # NULL THEN bytes ELSE <<>>
    /\ hist = NoHist

\* The same with no input pending.
InitMain(name, bytes, ws) == InitMainTty(name, bytes, ws, <<>>)

CName == <<97, 46, 99>>
CommentChars == {47, 42}
EditWin == [ws_row |-> 4, ws_col |-> 3]

InitEdit ==
    \E bytes \in FileBytes(CommentChars \cup {LF}, MaxFile) : InitMain(CName, bytes, EditWin)

NextEdit ==
    \/ E.dirty < MaxDirty /\ KeyEnter
    \/ \E c \in {BACKSPACE, DEL_KEY} : E.dirty < MaxDirty /\ KeyDelete(c)
    \/ \E c \in CommentChars : E.dirty < MaxDirty /\ KeyChar(c)
    \/ \E c \in ArrowKeys : KeyArrow(c)

SpecEdit == InitEdit /\ [][NextEdit]_vars

\* C1: every row's idx equals its position in the row store.
C1_RowIndexEqualsPosition ==
    \A k \in 1..Len(E.row) : E.row[k].idx = k - 1

\* The highlight of the row at position k (from 1), computed from its render
\* and the open-comment flag of the row stored before it.
Rehighlighted(e, k) ==
    HlScan(HLDB[e.syntax], e.row[k].render, 0,
           [j \in 1..Len(e.row[k].render) |-> HL_NORMAL], TRUE, 0,
           k > 1 /\ e.row[k - 1].hl_open_comment)

\* C2: with the C profile active, every row's stored hl and hl_open_comment
\* are those of a scan of its render that starts in the open-comment state of
\* the row before it.
C2_HighlightFollowsPreviousRow ==
    E.syntax # NULLSYN =>
        \A k \in 1..Len(E.row) :
            /\ E.row[k].hl = Rehighlighted(E, k).hl
            /\ E.row[k].hl_open_comment = Rehighlighted(E, k).in_comment

(***************************************************************************)
(* Splitting and joining rows of a C file (SpecSplit): Enter, Backspace    *)
(* and cursor moves only, over more edits than SpecEdit allows.            *)
(***************************************************************************)
NextSplit ==
    \/ E.dirty < MaxSplitDirty /\ KeyEnter
    \/ \E c \in {BACKSPACE} : E.dirty < MaxSplitDirty /\ KeyDelete(c)
    \/ \E c \in ArrowKeys : KeyArrow(c)

SpecSplit == InitEdit /\ [][NextSplit]_vars

\* C10: Enter on a real row leaves the editor at its next key read with the
\* row split at cx and the cursor at (0, cy+1), and a Backspace right after it
\* leaves it there with the text of every row and the cursor of before the
\* Enter.
C10_SplitJoinRoundTrip ==
    /\ (last = "Enter" /\ hist.E.cy < hist.E.numrows)
          => LET old == hist.E
                 chars == old.row[old.cy + 1].chars
             IN  /\ pc = "main"
                 /\ E.numrows = old.numrows + 1
                 /\ E.row[old.cy + 1].chars = SubSeq(chars, 1, old.cx)
                 /\ E.row[old.cy + 2].chars = SubSeqFrom(chars, old.cx)
                 /\ \A k \in 1..old.numrows :
                        k # old.cy + 1 =>
                            E.row[IF k <= old.cy THEN k ELSE k + 1].chars = old.row[k].chars
                 /\ E.cx = 0 /\ E.cy = old.cy + 1
    /\ (last = "Backspace" /\ hist.tag = "enter-delete" /\ hist.E.cy < hist.E.numrows)
          => /\ pc = "main"
             /\ Text(E) = Text(hist.E)
             /\ E.cx = hist.E.cx /\ E.cy = hist.E.cy

(***************************************************************************)
(* Loading and saving (SpecLoad): the editor from the editorOpen step of   *)
(* main() with a file over the alphabet {a, \r, \n}, then saves and cursor *)
(* moves, no edits.                                                        *)
(***************************************************************************)
\* The file of Scenario "a\nb\r\nc".
MixedEolFile == <<97, LF, 98, CR, LF, 99>>

LoadFiles == FileBytes({97, CR, LF}, MaxFile) \cup {MixedEolFile}

InitLoad ==
    /\ pc = "editorOpen"
    /\ E = initEditor(EditWin)
    /\ argv = <<97>>
    /\ tty = <<>>
    /\ disk \in {[exists |-> TRUE, bytes |-> b] : b \in LoadFiles}
    /\ termios = [cur |-> "raw", atexit |-> TRUE]
    /\ proc = Running
    /\ quit_times = KILO_QUIT_TIMES
    /\ last_match = -1
    /\ direction = 1
    /\ saved_hl_line = 0
    /\ saved_hl = NULL
    /\ buf = <<>>
    /\ saved_cx = 0
    /\ saved_cy = 0
    /\ saved_coloff = 0
    /\ saved_rowoff = 0
    /\ last = "initEditor"
    /\ presses = 0
    /\ loaded = <<>>
    /\ hist = NoHist

NextLoad ==
    \/ EditorOpen
    \/ KeyCtrlS({"ok"})
    \/ \E c \in ArrowKeys : KeyArrow(c)
    \/ KeyHome
    \/ KeyEnd
    \/ \E c \in {PAGE_UP, PAGE_DOWN} : KeyPage(c)

SpecLoad == InitLoad /\ [][NextLoad]_vars

\* The lines of a file as a reader of the format sees them: the bytes between
\* one '\n' and the next, the last line ending at the end of the file when
\* bytes follow the last '\n'.
LineEnds(bytes) ==
    {k \in 1..Len(bytes) : bytes[k] = LF}
       \cup (IF Len(bytes) > 0 /\ bytes[Len(bytes)] # LF THEN {Len(bytes) + 1} ELSE {})

LineAt(bytes, end) ==
    LET before == {k \in LineEnds(bytes) : k < end}
        start == IF before = {} THEN 1 ELSE (CHOOSE k \in before : \A j \in before : j <= k) + 1
    IN  SubSeq(bytes, start, end - 1)

\* The lines of the file in order.
FileLines(bytes) ==
    LET ends == LineEnds(bytes)
    IN  [j \in 1..Cardinality(ends) |->
            LineAt(bytes, CHOOSE k \in ends : Cardinality({m \in ends : m < k}) = j - 1)]

Range(seq) == {seq[j] : j \in DOMAIN seq}

\* The file that holds the given lines, each followed by one '\n'.
RECURSIVE FileOf(_)
FileOf(lines) ==
    IF lines = <<>> THEN <<>> ELSE Head(lines) \o <<LF>> \o FileOf(Tail(lines))

\* The file that holds the lines of bytes, each changed by f (a function from
\* lines to lines) and followed by one '\n'.
Rewritten(bytes, f) == FileOf([j \in DOMAIN FileLines(bytes) |-> f[FileLines(bytes)[j]]])

WithoutCr(line) == SelectSeq(line, LAMBDA b : b # CR)

\* The line without the '\r's that end it.
WithoutEndCr(line) ==
    LET keep == {k \in 0..Len(line) : \A j \in (k + 1)..Len(line) : line[j] = CR}
    IN  SubSeq(line, 1, MinOf(keep))

FooBarFoo == <<102, 111, 111, LF, 98, 97, 114, LF, 102, 111, 111>>

\* Scenario F's buffer; rows inside a comment, so that the highlight a match
\* covers is not HL_NORMAL; the empty buffer, which can be typed into.
FindFiles ==
    { FooBarFoo,
      <<47, 42, LF, 111, 102, LF, 111, 42, 47, 102>>,
      <<>> }

FindWin == [ws_row |-> 4, ws_col |-> 3]
QueryChars == {102, 111}

InitFind == \E bytes \in FindFiles : InitMain(CName, bytes, FindWin)

NextFind ==
    \/ \E c \in ArrowKeys : KeyArrow(c)
    \/ \E c \in QueryChars : E.numrows = 0 /\ KeyChar(c)
    \/ KeyCtrlF
    \/ \E c \in QueryChars : PromptChar(c)
    \/ \E c \in {ARROW_LEFT, ARROW_RIGHT} : PromptOther(c)
    \/ PromptEsc
    \/ PromptEnter({"ok"})

SpecFind == InitFind /\ [][NextFind]_vars

\* C7: when find mode has been left by ESC, the cursor and the viewport are
\* those of the entry of find mode, whatever keys were typed in between, and
\* the text of the buffer and the dirty counter are unchanged.
C7_FindCancelRestores ==
    last = "FindEsc" =>
        /\ E.cx = hist.E.cx /\ E.cy = hist.E.cy
        /\ E.rowoff = hist.E.rowoff /\ E.coloff = hist.E.coloff
        /\ Text(E) = Text(hist.E)
        /\ E.dirty = hist.E.dirty

C7_Witness ==
    /\ last = "FindEsc"
    /\ hist.E.rowoff > 0 /\ hist.E.coloff > 0
    /\ 0 \in hist.matched
    /\ Len(hist.keys) > 1
    /\ E.rowoff = hist.E.rowoff /\ E.coloff = hist.E.coloff

\* C8: outside find mode no row's hl holds HL_MATCH; in find mode at most one
\* row does; and when find mode has been left by ESC or by Enter every row's
\* hl is what it was at the entry of find mode.
C8_FindHighlight ==
    /\ pc # "find" => MatchRows(E) = {}
    /\ pc = "find" => Cardinality(MatchRows(E)) <= 1
    /\ last \in {"FindEsc", "FindEnter"} =>
          \A k \in 1..Len(E.row) : E.row[k].hl = hist.E.row[k].hl

C8_Witness ==
    /\ last = "FindEnter"
    /\ Cardinality(hist.matched) > 1
    /\ \E p \in hist.matched :
          /\ E.row[p + 1].hl = hist.E.row[p + 1].hl
          /\ \E k \in 1..Len(E.row[p + 1].hl) : E.row[p + 1].hl[k] # HL_NORMAL

\* The states of Scenario F: find mode entered on FooBarFoo with the cursor
\* at (cx, cy) = (0, 2), and the keys f, o, o, Right arrow typed.
ScenarioF ==
    /\ hist.tag \in {"find", "find-esc"}
    /\ loaded = FooBarFoo
    /\ hist.E.cx = 0 /\ hist.E.cy = 2
    /\ hist.keys = <<102, 111, 111, ARROW_RIGHT>>

\* C9 as stated: in Scenario F the Right arrow leaves the cursor at (0, 0)
\* with HL_MATCH over row 0, and ESC then puts the cursor back at (0, 2) with
\* row 0's highlight restored.
C9_ScenarioFWrapsToRow0 ==
    /\ (ScenarioF /\ pc = "find")
          => /\ E.cx = 0 /\ E.cy = 0
             /\ E.row[1].hl = <<HL_MATCH, HL_MATCH, HL_MATCH>>
    /\ (ScenarioF /\ last = "FindEsc")
          => /\ E.cx = 0 /\ E.cy = 2
             /\ E.row[1].hl = hist.E.row[1].hl

\* C9 (amended): in Scenario F the three letters leave the match on row 0, so
\* the Right arrow leaves the cursor at (0, 2) with HL_MATCH over row 2 and
\* over no other row, and ESC then leaves the cursor at (0, 2) with every
\* row's highlight as at the entry of find mode.
C9_ScenarioFStopsAtRow2 ==
    /\ (ScenarioF /\ pc = "find")
          => /\ E.cx = 0 /\ E.cy = 2
             /\ E.row[3].hl = <<HL_MATCH, HL_MATCH, HL_MATCH>>
             /\ MatchRows(E) = {2}
             /\ hist.matched = {0, 2}
    /\ (ScenarioF /\ last = "FindEsc")
          => /\ E.cx = 0 /\ E.cy = 2
             /\ \A k \in 1..Len(E.row) : E.row[k].hl = hist.E.row[k].hl

C9_Witness ==
    /\ ScenarioF /\ last = "FindEsc"
    /\ E.cx = 0 /\ E.cy = 2
    /\ hist.matched = {0, 2}

(***************************************************************************)
(* Coordinate mapping (SpecCoord): the editor at a key read with a one-row *)
(* buffer over the alphabet {tab, a}; each step applies one of the two     *)
(* conversions to row 0 and records the argument and the result in hist.   *)
(***************************************************************************)
InitCoord ==
    \E chars \in FileBytes({TAB, 97}, MaxCoordLen) : InitMain(<<97>>, chars, EditWin)

\* editorRowCxToRx(&E.row[0], cx)
RowCxToRx(cx) ==
    /\ AtKey
    /\ E.numrows > 0
    /\ cx \in 0..Len(E.row[1].chars)
    /\ hist' = [NoHist EXCEPT !.tag = "cx_to_rx",
                              !.keys = <<cx, editorRowCxToRx(E.row[1], cx)>>]
    /\ UNCHANGED <<E, pc, osVars, quit_times, findStatics, findLocals, buf, last, presses>>

\* editorRowRxToCx(&E.row[0], rx)
RowRxToCx(rx) ==
    /\ AtKey
    /\ E.numrows > 0
    /\ rx \in 0..MaxRx
    /\ hist' = [NoHist EXCEPT !.tag = "rx_to_cx",
                              !.keys = <<rx, editorRowRxToCx(E.row[1], rx)>>]
    /\ UNCHANGED <<E, pc, osVars, quit_times, findStatics, findLocals, buf, last, presses>>

NextCoord ==
    \/ \E cx \in 0..MaxCoordLen : RowCxToRx(cx)
    \/ \E rx \in 0..MaxRx : RowRxToCx(rx)

SpecCoord == InitCoord /\ [][NextCoord]_vars

\* C11: converting a chars index of a row to a render index and back gives
\* the chars index again, and converting a render index (also one past the
\* end of the render) to a chars index and back gives a render index that is
\* not greater.
C11_CoordinateRoundTrip ==
    /\ hist.tag = "cx_to_rx" => editorRowRxToCx(E.row[1], hist.keys[2]) = hist.keys[1]
    /\ hist.tag = "rx_to_cx" => editorRowCxToRx(E.row[1], hist.keys[2]) <= hist.keys[1]

\* A row with a tab after a letter: the chars index past the tab has been
\* converted, and so has a render index past the end of the render.
C11_Witness ==
    /\ E.numrows > 0
    /\ Len(E.row[1].chars) >= 2
    /\ E.row[1].chars[1] = 97 /\ E.row[1].chars[2] = TAB
    /\ \/ hist.tag = "cx_to_rx" /\ hist.keys = <<2, KILO_TAB_STOP>>
       \/ hist.tag = "rx_to_cx" /\ hist.keys[1] > Len(E.row[1].render)

(***************************************************************************)
(* Highlight storage (SpecHl): the editor at its first key read with no    *)
(* file or with a C file, then tabs, Enter, Backspace and Home, save-as of  *)
(* the unnamed buffer under the name "c" or ".c", and find with a query   *)
(* of spaces, which match inside a rendered tab.                           *)
(***************************************************************************)
HlFiles == {<<47, 42, LF, TAB, 49>>}
HlChars == {TAB}
NameChars == {46, 99}
SaveNames == {<<46, 99>>, <<99>>}
IsNamePrefix(b) == \E n \in SaveNames : Len(b) <= Len(n) /\ SubSeq(n, 1, Len(b)) = b

InitHl ==
    \/ InitMain(NULL, <<>>, EditWin)
    \/ \E bytes \in HlFiles : InitMain(CName, bytes, EditWin)

NextHl ==
    \/ E.dirty < MaxShortDirty /\ KeyEnter
    \/ \E c \in {BACKSPACE} : E.dirty < MaxShortDirty /\ KeyDelete(c)
    \/ \E c \in HlChars : E.dirty < MaxShortDirty /\ KeyChar(c)
    \/ KeyHome
    \/ E.filename = NULL /\ KeyCtrlS({"ok"})
    \/ KeyCtrlF
    \/ \E c \in NameChars : pc = "saveas" /\ IsNamePrefix(Append(buf, c)) /\ PromptChar(c)
    \/ \E c \in {SPACE} : pc = "find" /\ Len(buf) < MaxShortQuery /\ PromptChar(c)
    \/ PromptEsc
    \/ PromptEnter({"ok"})

SpecHl == InitHl /\ [][NextHl]_vars

HlClasses ==
    {HL_NORMAL, HL_COMMENT, HL_MLCOMMENT, HL_KEYWORD1, HL_KEYWORD2, HL_STRING,
     HL_NUMBER, HL_MATCH}

\* C12: in every state, every row's hl is as long as its render and holds
\* highlight classes only.
C12_HlMatchesRender ==
    \A k \in 1..Len(E.row) :
        /\ Len(E.row[k].hl) = Len(E.row[k].render)
        /\ \A j \in 1..Len(E.row[k].hl) : E.row[k].hl[j] \in HlClasses

\* A buffer typed into an unnamed editor, given the C profile by save-as,
\* edited again, and now in find mode with a match over a row that also holds
\* a tab.
C12_Witness ==
    /\ pc = "find"
    /\ argv = NULL /\ E.syntax # NULLSYN
    /\ E.dirty > 0
    /\ \E k \in 1..Len(E.row) :
          /\ \E j \in 1..Len(E.row[k].hl) : E.row[k].hl[j] = HL_MATCH
          /\ \E j \in 1..Len(E.row[k].chars) : E.row[k].chars[j] = TAB

\* The text of the last load or successful save, read back from the file: in
\* SpecHl the file is absent until the unnamed buffer is saved, and changes
\* only when a save succeeds.
SavedText ==
    LET lines == GetLines(IF disk.exists THEN disk.bytes ELSE <<>>)
    IN  [k \in 1..Len(lines) |-> StripEol(lines[k])]

InitSave ==
    \E bytes \in FileBytes({97, LF}, MaxFile) : InitMain(<<97>>, bytes, EditWin)

NextSave ==
    \/ \E c \in {BACKSPACE} : E.dirty < MaxDirty /\ KeyDelete(c)
    \/ \E c \in Letters : E.dirty < MaxDirty /\ KeyChar(c)
    \/ \E c \in {ARROW_RIGHT, ARROW_DOWN} : KeyArrow(c)
    \/ KeyCtrlS(SaveOutcomes)

SpecSave == InitSave /\ [][NextSave]_vars

CutAndPartlyWritten(after, before, out) ==
    /\ Len(after) = Len(out)
    /\ \E k \in 0..Len(out) :
          \A j \in 1..Len(out) :
              after[j] = IF j <= k THEN out[j]
                         ELSE IF j <= Len(before) THEN before[j] ELSE 0

TtyAlphabet == {ESC, 91, 65, 72, 49, 51, 126, 79, 97, 1, TIMEOUT, EIO}

\* Single bytes: a, NUL, Ctrl-A, Ctrl-H, tab, Ctrl-L, Enter, DEL, and ESC alone.
\* ESC [ X and ESC O X for X in A..H and Z.  ESC [ d ~ and ESC [ d x for every
\* digit d.  Sequences cut short by a timeout or a failed read, and bytes
\* that come after a timeout or EAGAIN.
KeyTable ==
    {<<c>> : c \in {97, 0, 1, 8, TAB, 12, CR, BACKSPACE, ESC}}
    \cup {<<ESC, i, x>> : i \in {91, 79}, x \in (65..72) \cup {90}}
    \cup {<<ESC, 91, d, t>> : d \in 48..57, t \in {126, 120}}
    \cup {<<ESC, 79, d, 126>> : d \in {49}}
    \cup {<<ESC, o>> : o \in {TIMEOUT, EAGAIN, EIO}}
    \cup {<<ESC, 91, o>> : o \in {TIMEOUT, EAGAIN, EIO}}
    \cup {<<ESC, 91, 49, o>> : o \in {TIMEOUT, EAGAIN, EIO}}
    \cup {<<o, 97>> : o \in {TIMEOUT, EAGAIN, EIO}}

TtyInputs ==
    FileBytes(TtyAlphabet, MaxTty) \cup KeyTable \cup {a \o b : a, b \in KeyTable}

KeysFile == <<97, 97, LF, 97>>

InitKeys ==
    \E input \in TtyInputs : InitMainTty(<<97>>, KeysFile, EditWin, input)

NextKeys ==
    \/ Keypress(BOOLEAN)

SpecKeys == InitKeys /\ [][NextKeys]_vars

\* The outcomes of one editorReadKey call without the timeouts and EAGAINs
\* that came before the first byte.
RECURSIVE FromFirstByte(_)
FromFirstByte(s) ==
    IF s # <<>> /\ s[1] \in {TIMEOUT, EAGAIN} THEN FromFirstByte(Tail(s)) ELSE s

\* The key of the letter X in ESC [ X and ESC O X, for X in A B C D H F.
LetterKey(x) ==
    CASE x = 65 -> ARROW_UP
      [] x = 66 -> ARROW_DOWN
      [] x = 67 -> ARROW_RIGHT
      [] x = 68 -> ARROW_LEFT
      [] x = 72 -> HOME_KEY
      [] x = 70 -> END_KEY

\* The key of the digit d in ESC [ d ~, for d in 1 3 4 5 6 7 8.
DigitKey(d) ==
    CASE d = 49 -> HOME_KEY
      [] d = 51 -> DEL_KEY
      [] d = 52 -> END_KEY
      [] d = 53 -> PAGE_UP
      [] d = 54 -> PAGE_DOWN
      [] d = 55 -> HOME_KEY
      [] d = 56 -> END_KEY

\* The key that the bytes s of one editorReadKey call stand for, when ESC i X
\* is a key for every i in intro and X in A B C D H F.
KeyOf(s, intro) ==
    IF s[1] # ESC THEN s[1]
    ELSE IF Len(s) = 3 /\ s[2] \in intro /\ s[3] \in {65, 66, 67, 68, 72, 70}
    THEN LetterKey(s[3])
    ELSE IF Len(s) = 3 /\ s[2] = 79 /\ s[3] \in {72, 70}
    THEN LetterKey(s[3])
    ELSE IF Len(s) = 4 /\ s[2] = 91 /\ s[3] \in {49, 51, 52, 53, 54, 55, 56} /\ s[4] = 126
    THEN DigitKey(s[3])
    ELSE ESC

\* C17: the key returned for the input of one call is the first byte when it
\* is not ESC; the arrow, Home or End key for ESC [ X and for ESC O X with X
\* in A B C D H F; the key of the table for ESC [ d ~; and ESC for ESC alone,
\* a sequence cut short and every other sequence.
C17_KeyDecoding ==
    hist.tag = "key" => hist.key = KeyOf(FromFirstByte(hist.keys), {91, 79})

\* The same with the arrow keys of ESC O X left out: ESC O X is a key for X
\* in H F only.
KeyDecodingArrowsAfterBracket ==
    hist.tag = "key" => hist.key = KeyOf(FromFirstByte(hist.keys), {91})

(***************************************************************************)
(* Start-up (SpecStart): the process from its start to the first key read, *)
(* with the terminal's answer to the cursor-position query pending.        *)
(***************************************************************************)
\* The reply ESC [ rows ; cols R for numbers given as digit strings.
Reply(rows, cols) == <<ESC, 91>> \o rows \o <<59>> \o cols \o <<82>>

\* "4", "24" and "3", "80".
ReplyRows == {<<52>>, <<50, 52>>}
ReplyCols == {<<51>>, <<56, 48>>}

\* Well-formed replies; no reply; replies without ESC, without the second
\* number, without the semicolon, cut short by a timeout or a failed read.
StartReplies ==
    {Reply(r, c) : r \in ReplyRows, c \in ReplyCols}
    \cup { <<>>,
           <<91, 52, 59, 51, 82>>,
           <<ESC, 91, 52, 59, 82>>,
           <<ESC, 91, 52, 82>>,
           <<ESC, 91, 59, 51, 82>>,
           <<ESC, 91, 52, TIMEOUT>>,
           <<ESC, EIO>> }

InitStart ==
    /\ pc = "enableRawMode"
    /\ E = InitE
    /\ argv \in {NULL, <<97>>}
    /\ tty \in StartReplies
    /\ disk \in {NoDisk} \cup {[exists |-> TRUE, bytes |-> b] : b \in {<<>>, <<97, LF>>}}
    /\ termios = [cur |-> "orig", atexit |-> FALSE]
    /\ proc = Running
    /\ quit_times = KILO_QUIT_TIMES
    /\ last_match = -1
    /\ direction = 1
    /\ saved_hl_line = 0
    /\ saved_hl = NULL
    /\ buf = <<>>
    /\ saved_cx = 0
    /\ saved_cy = 0
    /\ saved_coloff = 0
    /\ saved_rowoff = 0
    /\ last = "start"
    /\ presses = 0
    /\ loaded = <<>>
    /\ hist = NoHist

NextStart ==
    \/ EnableRawMode
    \/ InitEditor(WinSizes)
    \/ EditorOpen

SpecStart == InitStart /\ [][NextStart]_vars

\* The value of a string of decimal digits.
RECURSIVE Decimal(_)
Decimal(digits) ==
    IF digits = <<>> THEN 0
    ELSE 10 * Decimal(SubSeq(digits, 1, Len(digits) - 1)) + (digits[Len(digits)] - 48)

\* C14: when the ioctl fails or reports no columns, both writes succeed and
\* the terminal answers ESC [ rows ; cols R, initEditor goes on to editorOpen
\* with screenrows = rows - 2 and screencols = cols.
C14_CursorReplyGivesWindowSize ==
    [][\A r \in ReplyRows, c \in ReplyCols :
          (/\ pc = "initEditor"
           /\ hist'.tag = "getWindowSize"
           /\ hist'.fallback /\ hist'.moved /\ hist'.asked
           /\ tty = Reply(r, c))
          => /\ pc' = "editorOpen"
             /\ E'.screenrows = Decimal(r) - 2
             /\ E'.screencols = Decimal(c)]_vars

\* C15: every failed read or write on the terminal ends the process with a
\* nonzero status: the read that ends in die(), a read that fails inside an
\* escape sequence, and the write of the frame.
C15_FatalIO ==
    /\ last = "die" => (pc = "exited" /\ proc.status # 0)
    /\ (hist.tag = "key" /\ (hist.read_error \/ ~hist.wrote))
          => (pc = "exited" /\ proc.status # 0)

\* The bytes 32..126.
isprint(c) == c >= 32 /\ c <= 126

\* The keys C18 is about: Ctrl-L, ESC (also returned for every unrecognised
\* escape sequence), and the bytes without a case of their own that are not
\* printable.
IsIgnoredKey(c) ==
    \/ c \in {CTRL_KEY(108), ESC}
    \/ c \in 0..255 /\ c \notin BoundKeys /\ ~isprint(c)

\* hist.E and E agree on text, number of rows, cursor and dirty counter.
UnchangedByKey ==
    /\ Text(E) = Text(hist.E)
    /\ E.numrows = hist.E.numrows
    /\ E.cx = hist.E.cx /\ E.cy = hist.E.cy
    /\ E.dirty = hist.E.dirty

\* C18: a key that is Ctrl-L, ESC, an unrecognised escape sequence or an
\* unbound byte that is not printable leaves the text, the number of rows,
\* the cursor and the dirty counter as they were.
C18_IgnoredKeysChangeNothing ==
    (last = "Keypress" /\ hist.tag = "key" /\ IsIgnoredKey(hist.key)) => UnchangedByKey

\* The same for Ctrl-L and ESC only.
CtrlLAndEscChangeNothing ==
    (last = "Keypress" /\ hist.tag = "key" /\ hist.key \in {CTRL_KEY(108), ESC})
        => UnchangedByKey

(***************************************************************************)
(* Cursor (SpecCursor): the editor at its first key read with a file of    *)
(* a's in a window of one or two text rows, then every cursor key, edits,  *)
(* and find with the query "a", accepted or cancelled.                     *)
(***************************************************************************)
CursorWins == {[ws_row |-> 3, ws_col |-> 3], [ws_row |-> 4, ws_col |-> 3]}

\* "aa\na", "a\n\naa" and the empty file.
CursorFiles == {<<97, 97, LF, 97>>, <<97, LF, LF, 97, 97>>, <<>>}

InitCursor ==
    \E bytes \in CursorFiles, ws \in CursorWins : InitMain(<<97>>, bytes, ws)

NextCursor ==
    \/ \E c \in ArrowKeys : KeyArrow(c)
    \/ KeyHome
    \/ KeyEnd
    \/ \E c \in {PAGE_UP, PAGE_DOWN} : KeyPage(c)
    \/ E.dirty < MaxShortDirty /\ KeyEnter
    \/ \E c \in {BACKSPACE, DEL_KEY} : E.dirty < MaxShortDirty /\ KeyDelete(c)
    \/ \E c \in Letters : E.dirty < MaxShortDirty /\ KeyChar(c)
    \/ KeyCtrlF
    \/ \E c \in Letters : Len(buf) < MaxShortQuery /\ PromptChar(c)
    \/ PromptEsc
    \/ PromptEnter({"ok"})

SpecCursor == InitCursor /\ [][NextCursor]_vars

\* C19: at every key read of the main loop the cursor is on a row or on the
\* line after the last row, and within the row: 0 <= cy <= numrows and
\* 0 <= cx <= the length of row cy, which counts as 0 when cy = numrows.
C19_CursorInBounds ==
    (pc = "main" /\ E.screenrows >= 1) =>
        /\ 0 <= E.cy /\ E.cy <= E.numrows
        /\ 0 <= E.cx
        /\ E.cx <= (IF E.cy = E.numrows THEN 0 ELSE Len(E.row[E.cy + 1].chars))

\* The cursor has come from the end of a longer row to the end of a shorter
\* row below it, by a cursor key.
C19_Witness ==
    /\ pc = "main"
    /\ last \in {"Arrow", "Page"}
    /\ E.cy > 0 /\ E.cy < E.numrows
    /\ E.cx = Len(E.row[E.cy + 1].chars)
    /\ Len(E.row[E.cy].chars) > Len(E.row[E.cy + 1].chars)
    /\ E.cx > 0

(***************************************************************************)
(* Rehighlight propagation (editorUpdateSyntax, kilo.c:432-438).  A C file  *)
(* is open and a few keys are pending: the comment characters, Enter,       *)
(* Backspace, Delete and three arrows.  Each key read records, in           *)
(* hist.visits, the rows that editorUpdateSyntax visited while the key was  *)
(* handled, in call order.                                                  *)
(***************************************************************************)
PropagateKeys ==
    {<<47>>, <<42>>, <<CR>>, <<BACKSPACE>>, <<ESC, 91, 51, 126>>,
     <<ESC, 91, 65>>, <<ESC, 91, 66>>, <<ESC, 91, 67>>}

RECURSIVE KeySeqs(_)
KeySeqs(n) ==
    IF n = 0 THEN {<<>>}
    ELSE KeySeqs(n - 1) \cup {a \o k : a \in KeySeqs(n - 1), k \in PropagateKeys}

InitPropagate ==
    \E bytes \in FileBytes(CommentChars \cup {LF}, MaxFile) :
        \E input \in KeySeqs(MaxTty) : InitMainTty(CName, bytes, EditWin, input)

NextPropagate ==
    \/ Keypress({TRUE})

SpecPropagate == InitPropagate /\ [][NextPropagate]_vars

\* The visit after visit k of the key just handled belongs to the same
\* propagation: visit k made the recursive call.
Continued(k) == hist.visits[k].more

\* C20: a rehighlight of the row at position i goes on to the row at position
\* i + 1 exactly when row i's hl_open_comment changed and i + 1 < numrows, and
\* stops otherwise; the positions visited by one propagation increase
\* strictly, so a propagation visits at most numrows rows.  The numrows of the
\* condition is E.numrows as the call reads it; the rows a propagation can
\* visit are those in the array at that moment (editorInsertRow rehighlights
\* the new row before it counts it).
C20_PropagationGoesDown ==
    hist.tag = "key" =>
        \A k \in 1..Len(hist.visits) :
            LET v == hist.visits[k]
            IN  /\ v.more <=> (v.changed /\ v.pos + 1 < v.numrows)
                /\ v.more => /\ k < Len(hist.visits)
                             /\ hist.visits[k + 1].pos = v.pos + 1
                /\ \A j \in k..Len(hist.visits) :
                        (\A m \in k..(j - 1) : Continued(m)) => j - k + 1 <= v.rows

\* The part of C20 that the code keeps: a propagation goes on only from a row
\* whose flag changed, and then the next call is made.
PropagationNeedsChange ==
    hist.tag = "key" =>
        \A k \in 1..Len(hist.visits) :
            hist.visits[k].more =>
                hist.visits[k].changed /\ k < Len(hist.visits)

\* A propagation has gone from a row to the row below it.
PropagationReachesNextRow ==
    /\ hist.tag = "key"
    /\ \E k \in 1..(Len(hist.visits) - 1) :
            /\ hist.visits[k].more
            /\ hist.visits[k + 1].pos = hist.visits[k].pos + 1

(***************************************************************************)
(* Find stepping (SpecFind).  A step of find mode is a key read by the     *)
(* prompt that leaves the prompt open; the key is the one added to         *)
(* hist.keys and the query is the buffer after the key.                    *)
(***************************************************************************)
\* text holds query as a substring (the empty query is in every text).
Contains(text, query) ==
    \E k \in 0..(Len(text) - Len(query)) : SubSeq(text, k + 1, k + Len(query)) = query

\* The first row holding query on the walk start, start + dir, ... over the n
\* rows of e with wrap-around, or -1 when no row holds it.
FirstHit(e, query, start, dir) ==
    LET n == e.numrows
        At(k) == (start + dir * (k - 1) + 2 * n) % n
        hits == {k \in 1..n : Contains(e.row[At(k) + 1].render, query)}
    IN  IF hits = {} THEN -1
        ELSE At(CHOOSE k \in hits : \A j \in hits : k <= j)

FindStep ==
    /\ pc = "find" /\ pc' = "find"
    /\ Len(hist'.keys) = Len(hist.keys) + 1
    /\ hist'.keys[Len(hist'.keys)] # CR

PromptKeys ==
    {ESC, CR, BACKSPACE, DEL_KEY, CTRL_KEY(104), 102, 111, TAB, ARROW_LEFT, ARROW_RIGHT,
     PAGE_UP}

InitPrompt ==
    \/ InitMain(CName, FooBarFoo, FindWin)
    \/ InitMain(NULL, <<>>, FindWin)

NextPrompt ==
    \/ E.dirty < MaxShortDirty /\ KeyChar(102)
    \/ KeyCtrlF
    \/ E.filename = NULL /\ KeyCtrlS({"ok"})
    \/ \E c \in PromptKeys :
          /\ (~iscntrl(c) /\ c < 128) => Len(buf) < MaxShortQuery
          /\ PromptKey(c, {"ok", "open"})

SpecPrompt == InitPrompt /\ [][NextPrompt]_vars

\* The buffer of the prompt after key c was read with the buffer holding b.
BufAfter(b, c) ==
    IF c \in {BACKSPACE, DEL_KEY, CTRL_KEY(104)}
    THEN IF b = <<>> THEN b ELSE SubSeq(b, 1, Len(b) - 1)
    ELSE IF c >= 32 /\ c < 127 THEN Append(b, c)
    ELSE b

CallsOf(events) == {k \in 1..Len(events) : events[k].ev = "callback"}
ReturnsOf(events) == {k \in 1..Len(events) : events[k].ev = "return"}

\* C22: for every key read by the prompt the callback, when there is one (find
\* mode), is called exactly once, with the buffer as it is after the key and
\* with that key, and before the prompt returns when it does; the prompt
\* returns no result on ESC and only then, returns the buffer on Enter with a
\* non-empty buffer and only then, and stays open on Enter with an empty
\* buffer.  Without a callback (Save as) nothing is called.
C22_PromptProtocol ==
    hist.tag = "prompt" =>
        LET c == hist.keys[1]
            ev == hist.events
        IN  /\ hist.mode = "find" =>
                   /\ Cardinality(CallsOf(ev)) = 1
                   /\ \A k \in CallsOf(ev) :
                          /\ ev[k].buf = BufAfter(hist.buf, c)
                          /\ ev[k].key = c
                          /\ \A j \in ReturnsOf(ev) : k < j
            /\ hist.mode = "saveas" => CallsOf(ev) = {}
            /\ (hist.ret = "NULL") <=> (c = ESC)
            /\ (hist.ret = "buf") <=> (c = CR /\ hist.buf # <<>>)
            /\ hist.ret = "buf" => hist.value = hist.buf
            /\ (hist.ret = "open") <=> (pc = hist.mode)
            /\ (hist.ret # "open") <=> (pc = "main" /\ ReturnsOf(ev) # {})

\* Find mode has been left by Enter on a non-empty buffer: the callback was
\* called with Enter and the prompt then returned the buffer.
C22_Witness ==
    /\ hist.tag = "prompt" /\ hist.mode = "find"
    /\ hist.keys = <<CR>> /\ hist.buf = <<111>>
    /\ hist.ret = "buf" /\ pc = "main"
    /\ Len(hist.events) = 2 /\ hist.events[1].ev = "callback"

\* C23: when the Save-as prompt, opened with no filename set, has been left by
\* ESC, no file has been written, the filename is still unset, the text of the
\* buffer and the dirty counter are those of before the key, and the status
\* message is "Save aborted".
C23_SaveCancel ==
    (hist.tag = "prompt" /\ hist.mode = "saveas" /\ hist.keys = <<ESC>>) =>
        /\ pc = "main"
        /\ disk = NoDisk
        /\ E.filename = NULL
        /\ Text(E) = Text(hist.E)
        /\ E.dirty = hist.E.dirty
        /\ E.statusmsg = Msg("Save aborted", 0, <<>>)

\* ESC has been read by the Save-as prompt with a name typed and text in the
\* buffer.
C23_Witness ==
    /\ hist.tag = "prompt" /\ hist.mode = "saveas" /\ hist.keys = <<ESC>>
    /\ hist.buf # <<>>
    /\ E.dirty > 0 /\ E.numrows > 0
    /\ pc = "main"

(***************************************************************************)
(* Tab rendering (SpecRender): a one-row file over {tab, a}, or the row    *)
(* "a<tab>bc"; tabs and letters are typed and deleted, and the cursor      *)
(* moves, so that editorUpdateRow renders rows of every shape.             *)
(***************************************************************************)
ATabBC == <<97, TAB, 98, 99>>

InitRender ==
    \E chars \in FileBytes({TAB, 97}, MaxCoordLen) \cup {ATabBC} :
        InitMain(<<97>>, chars, EditWin)

NextRender ==
    \/ \E c \in {TAB, 98} : E.dirty < MaxShortDirty /\ KeyChar(c)
    \/ E.dirty < MaxShortDirty /\ KeyDelete(BACKSPACE)
    \/ \E c \in {ARROW_LEFT, ARROW_RIGHT} : KeyArrow(c)

SpecRender == InitRender /\ [][NextRender]_vars

\* chars with each tab replaced by the spaces, one to eight, that end at the
\* next column which is a multiple of 8.
RECURSIVE TabsExpanded(_, _)
TabsExpanded(chars, out) ==
    IF chars = <<>> THEN out
    ELSE TabsExpanded(Tail(chars),
                      IF Head(chars) = TAB
                      THEN out \o [k \in 1..(8 - (Len(out) % 8)) |-> SPACE]
                      ELSE Append(out, Head(chars)))

\* C24: every row's render is its chars with each tab replaced by one to eight
\* spaces ending at the next multiple of 8; the length of render is
\* cx_to_rx(row, len(chars)); every character that is not a tab stands in
\* render at cx_to_rx of its index; and "a<tab>bc" renders as a, seven
\* spaces, b, c, with rx 1 for cx 1 and rx 8 for cx 2.
C24_TabRendering ==
    \A p \in 1..Len(E.row) :
        LET row == E.row[p]
        IN  /\ row.render = TabsExpanded(row.chars, <<>>)
            /\ Len(row.render) = editorRowCxToRx(row, Len(row.chars))
            /\ \A cx \in 0..(Len(row.chars) - 1) :
                   row.chars[cx + 1] # TAB =>
                       row.render[editorRowCxToRx(row, cx) + 1] = row.chars[cx + 1]
            /\ row.chars = ATabBC =>
                   /\ row.render = <<97>> \o [k \in 1..7 |-> SPACE] \o <<98, 99>>
                   /\ editorRowCxToRx(row, 1) = 1
                   /\ editorRowCxToRx(row, 2) = 8

\* A letter has been typed after a tab: the rendered row is longer than 8
\* and the typed letter stands at the tab stop.
C24_Witness ==
    /\ last = "Char"
    /\ E.numrows = 1
    /\ E.row[1].chars = <<TAB, 98>>
    /\ Len(E.row[1].render) = 9
    /\ E.row[1].render[9] = 98

(***************************************************************************)
(* Keywords (SpecKw): a C file of one row over {i, f, space, "}, or one of *)
(* two rows with type keywords; letters are typed and deleted and the      *)
(* cursor moves.                                                           *)
(***************************************************************************)
\* "int x; integer y;"
IntXIntegerY ==
    <<105, 110, 116, 32, 120, 59, 32, 105, 110, 116, 101, 103, 101, 114, 32, 121, 59>>

KwFiles ==
    FileBytes({105, 102, 32, 34}, MaxKwLen) \cup {IntXIntegerY, <<34, 34, 105, 110, 116>>}

InitKw == \E bytes \in KwFiles : InitMain(CName, bytes, EditWin)

NextKw ==
    \/ \E c \in {105, 102} : E.dirty < MaxShortDirty /\ KeyChar(c)
    \/ E.dirty < MaxShortDirty /\ KeyDelete(BACKSPACE)
    \/ \E c \in {ARROW_LEFT, ARROW_RIGHT} : KeyArrow(c)

SpecKw == InitKw /\ [][NextKw]_vars

\* The spans a..b (from 1) of hl that are classified as keywords: the maximal
\* runs of HL_KEYWORD1 and of HL_KEYWORD2.
KeywordSpans(hl) ==
    {<<a, b>> \in (1..Len(hl)) \X (1..Len(hl)) :
        /\ a <= b
        /\ hl[a] \in {HL_KEYWORD1, HL_KEYWORD2}
        /\ \A k \in a..b : hl[k] = hl[a]
        /\ a > 1 => hl[a - 1] # hl[a]
        /\ b < Len(hl) => hl[b + 1] # hl[a]}

\* The span a..b of row is a keyword of the profile with the class of its
\* marker, and a separator or the end of the row follows it.
IsKeywordSpan(row, a, b) ==
    /\ \E j \in 1..Len(C_HL_keywords) :
          LET kw == C_HL_keywords[j]
              marked == kw[Len(kw)] = 124
          IN  /\ SubSeq(row.render, a, b) = (IF marked THEN SubSeq(kw, 1, Len(kw) - 1) ELSE kw)
              /\ row.hl[a] = (IF marked THEN HL_KEYWORD2 ELSE HL_KEYWORD1)
    /\ b = Len(row.render) \/ is_separator(row.render[b + 1])

\* In "int x; integer y;" the first int is HL_KEYWORD2 and the rest is
\* HL_NORMAL.
ScenarioC(row) ==
    row.render = IntXIntegerY =>
        row.hl = [k \in 1..Len(IntXIntegerY) |-> IF k <= 3 THEN HL_KEYWORD2 ELSE HL_NORMAL]

\* C25 as stated: every span classified as a keyword equals a keyword of the
\* profile with the class of its marker, has the start of the row or a
\* separator character before it, and a separator or the end of the row
\* after it; and Scenario C.
C25_KeywordAfterSeparator ==
    \A p \in 1..Len(E.row) :
        LET row == E.row[p]
        IN  /\ \A span \in KeywordSpans(row.hl) :
                   /\ IsKeywordSpan(row, span[1], span[2])
                   /\ span[1] = 1 \/ is_separator(row.render[span[1] - 1])
            /\ ScenarioC(row)

\* C25 (amended): the same, where what stands before the span is the start of
\* the row, a separator character, or the closing quote of a string.
C25_KeywordAfterSeparatorOrString ==
    \A p \in 1..Len(E.row) :
        LET row == E.row[p]
        IN  /\ \A span \in KeywordSpans(row.hl) :
                   /\ IsKeywordSpan(row, span[1], span[2])
                   /\ \/ span[1] = 1
                      \/ is_separator(row.render[span[1] - 1])
                      \/ /\ row.render[span[1] - 1] \in {34, 39}
                         /\ row.hl[span[1] - 1] = HL_STRING
            /\ ScenarioC(row)

\* A keyword stands right after the closing quote of a string and is
\* classified, with the cursor moved past it.
C25_Witness ==
    /\ E.numrows = 1
    /\ E.row[1].render = <<34, 34, 105, 102>>
    /\ E.row[1].hl = <<HL_STRING, HL_STRING, HL_KEYWORD1, HL_KEYWORD1>>
    /\ E.cx = 4

(***************************************************************************)
(* Typing and the Delete key (SpecType): a file of two rows, of one row,   *)
(* or none, and up to MaxTty keys pending: b, Delete, Down and Right.      *)
(***************************************************************************)
TypeKeys == {<<98>>, <<ESC, 91, 51, 126>>, <<ESC, 91, 66>>, <<ESC, 91, 67>>}

RECURSIVE KeySeqsOf(_, _)
KeySeqsOf(keys, n) ==
    IF n = 0 THEN {<<>>}
    ELSE KeySeqsOf(keys, n - 1) \cup {a \o k : a \in KeySeqsOf(keys, n - 1), k \in keys}

TypeFiles == {<<97, 97, LF, 97>>, <<97>>, <<>>}

InitType ==
    \E bytes \in TypeFiles :
        \E input \in KeySeqsOf(TypeKeys, MaxTty) : InitMainTty(<<97>>, bytes, EditWin, input)

NextType ==
    \/ Keypress({TRUE})

SpecType == InitType /\ [][NextType]_vars

\* s with c put in at index at (from 0).
Inserted(s, at, c) == SubSeq(s, 1, at) \o <<c>> \o SubSeq(s, at + 1, Len(s))

\* C26: after character c was typed with the cursor at (cx, cy), row cy is
\* its old text with c put in at index cx, the cursor is at (cx + 1, cy) and
\* the text of every other row is unchanged; the number of rows has grown, by
\* one, exactly when the cursor was on the line after the last row, and the
\* new last row is then the single character c.
C26_InsertChar ==
    (hist.tag = "key" /\ hist.key = 98) =>
        LET old == hist.E
            c == hist.key
        IN  /\ E.cx = old.cx + 1 /\ E.cy = old.cy
            /\ IF old.cy = old.numrows
               THEN /\ E.numrows = old.numrows + 1
                    /\ Text(E) = Append(Text(old), <<c>>)
               ELSE /\ E.numrows = old.numrows
                    /\ Text(E) = [Text(old) EXCEPT ![old.cy + 1] = Inserted(@, old.cx, c)]
            /\ Len(E.row) = E.numrows

\* b has been typed in the middle of a row of a file of two rows.
C26_Witness ==
    /\ hist.tag = "key" /\ hist.key = 98
    /\ hist.E.numrows = 2 /\ hist.E.cy = 0 /\ hist.E.cx = 1
    /\ Text(E) = << <<97, 98, 97>>, <<97>> >>

\* b has been typed on the line after the last row of a file with rows.
TypedPastTheEnd ==
    /\ hist.tag = "key" /\ hist.key = 98
    /\ hist.E.numrows > 0 /\ hist.E.cy = hist.E.numrows

\* The text after Delete at (cx, cy) of old: the character under the cursor
\* is gone, or at the end of a row that is not the last the next row is
\* joined onto it; at the end of the last row and after it nothing changes.
AfterDelete(old) ==
    LET t == Text(old)
        cy == old.cy
    IN  IF cy >= old.numrows THEN t
        ELSE IF old.cx < Len(t[cy + 1])
        THEN [t EXCEPT ![cy + 1] = SubSeq(@, 1, old.cx) \o SubSeq(@, old.cx + 2, Len(@))]
        ELSE IF cy = old.numrows - 1 THEN t
        ELSE [k \in 1..(Len(t) - 1) |->
                 IF k < cy + 1 THEN t[k]
                 ELSE IF k = cy + 1 THEN t[k] \o t[k + 1]
                 ELSE t[k + 1]]

\* C29: after the Delete key the text is that of AfterDelete and the cursor
\* is where it was; at the end of the last row and on the line after the last
\* row the dirty counter is unchanged as well.
C29_DeleteKey ==
    (hist.tag = "key" /\ hist.key = DEL_KEY) =>
        LET old == hist.E
        IN  /\ Text(E) = AfterDelete(old)
            /\ E.cx = old.cx /\ E.cy = old.cy
            /\ Text(E) = Text(old) => E.dirty = old.dirty

\* The part of C29 that the code keeps: the text is that of AfterDelete, the
\* dirty counter is unchanged when the text is, and the cursor is where it was
\* unless it was at the end of the last row.
DeleteKeyAwayFromTheEnd ==
    (hist.tag = "key" /\ hist.key = DEL_KEY) =>
        LET old == hist.E
            at_end == /\ old.numrows > 0 /\ old.cy = old.numrows - 1
                      /\ old.cx = Len(old.row[old.cy + 1].chars)
        IN  /\ Text(E) = AfterDelete(old)
            /\ Text(E) = Text(old) => E.dirty = old.dirty
            /\ IF at_end THEN E.cx = 0 /\ E.cy = old.numrows
               ELSE E.cx = old.cx /\ E.cy = old.cy

\* Delete has joined the second row onto the first.
DeleteJoinsRows ==
    /\ hist.tag = "key" /\ hist.key = DEL_KEY
    /\ hist.E.numrows = 2 /\ E.numrows = 1
    /\ E.cx = hist.E.cx /\ E.cy = 0

\* A key read is pending: editorReadKey of the main loop or of editorPrompt.
AtKeyRead == pc \in {"main", "find", "saveas"}

\* C27: the refresh before a key read, in the main loop and in the prompt,
\* has made exactly one write, of the frame of the state the key is read in,
\* and the frame holds in this order: hide-cursor, cursor-home, screenrows
\* text rows, the status bar, the message bar, the cursor placement and
\* show-cursor.
C27_OneWritePerRefresh ==
    AtKeyRead =>
        /\ Len(E.written) = 1
        /\ LET f == E.written[1]
               n == Len(f)
           IN  /\ f = Frame(E)
               /\ n = E.screenrows + 6
               /\ f[1].part = "hide" /\ f[2].part = "home"
               /\ \A y \in 1..E.screenrows : f[2 + y].part = "row"
               /\ f[n - 3].part = "status"
               /\ f[n - 2].part = "message" /\ f[n - 2].msg = E.statusmsg
               /\ f[n - 1].part = "place"
               /\ f[n].part = "show"

\* The prompt of find mode is about to read a key after a letter was typed:
\* the frame written shows the query in the message bar and the matched row.
C27_Witness ==
    /\ pc = "find" /\ buf # <<>>
    /\ hist.tag = "prompt"
    /\ Len(E.written) = 1
    /\ E.written[1][Len(E.written[1]) - 2].msg = PromptMsg(buf)
    /\ E.written[1][3].filerow = E.cy

\* C28: with screenrows >= 1 and screencols >= 1, at every key read (after the
\* scroll of the refresh, also the one that follows a find hit, which set
\* rowoff = numrows) rowoff <= cy < rowoff + screenrows and
\* coloff <= rx < coloff + screencols, and the cursor placement written is
\* within rows 1..screenrows and columns 1..screencols.
C28_Viewport ==
    (AtKeyRead /\ E.screenrows >= 1 /\ E.screencols >= 1) =>
        /\ E.rowoff <= E.cy /\ E.cy < E.rowoff + E.screenrows
        /\ E.coloff <= E.rx /\ E.rx < E.coloff + E.screencols
        /\ LET place == E.written[1][Len(E.written[1]) - 1]
           IN  /\ place.part = "place"
               /\ place.row \in 1..E.screenrows
               /\ place.col \in 1..E.screencols

\* Find mode was entered with the window scrolled down, and a letter typed
\* has hit row 0: the callback set rowoff = numrows and the scroll of the
\* refresh has brought the window back to the hit.
C28_Witness ==
    /\ pc = "find" /\ last = "PromptChar"
    /\ hist.tag = "find" /\ hist.E.rowoff > 0
    /\ E.cy = 0 /\ E.rowoff = 0
    /\ MatchRows(E) = {0}

(***************************************************************************)
(* The find callback under every key of the prompt: a buffer with an empty *)
(* row, the empty buffer, rows joined by Backspace between two sessions of *)
(* find mode, and in the prompt letters, Backspace, arrows, ESC and Enter. *)
(***************************************************************************)
\* The file is "fo", "" and "1f": an empty row, and a row whose hl is not all
\* HL_NORMAL; or there is no file.
InitSafe ==
    \E bytes \in {<<102, 111, LF, LF, 49, 102>>, <<>>} :
        InitMain(CName, bytes, FindWin)

NextSafe ==
    \/ \E c \in {ARROW_UP, ARROW_DOWN} : KeyArrow(c)
    \/ E.dirty < MaxShortDirty /\ KeyDelete(BACKSPACE)
    \/ KeyCtrlF
    \/ \E c \in {102, 111, BACKSPACE, ARROW_LEFT, ARROW_RIGHT, ESC, CR} :
          /\ (~iscntrl(c) /\ c < 128) => Len(buf) < MaxQuery
          /\ PromptKey(c, {"ok"})

SpecSafe == InitSafe /\ [][NextSafe]_vars

InRows(e, line) == line >= 0 /\ line < e.numrows

\* C30: whatever the keys of find mode (an arrow as the first key, a query
\* emptied by Backspace, the empty buffer, a second session of find mode),
\* every row index the find callback uses is within 0..numrows-1; the saved
\* highlight is copied back onto the row it was taken from, whose length is
\* that of the copy and has not changed; the HL_MATCH overlay lies within
\* the hl of the row of the hit; and the statics left behind name a row of
\* the buffer while find mode lasts and are reset when it is left.
C30_FindMemorySafety ==
    /\ (hist.tag = "prompt" /\ hist.mode = "find") =>
          /\ E.numrows = hist.E.numrows
          /\ \A line \in hist.touched : InRows(hist.E, line)
          /\ \A n \in 1..Len(hist.restored) :
                LET r == hist.restored[n]
                    before == hist.E.row[r.line + 1]
                    after == E.row[r.line + 1]
                IN  /\ InRows(hist.E, r.line)
                    /\ Len(r.saved) = r.rsize
                    /\ Len(before.hl) = r.rsize /\ Len(after.hl) = r.rsize
                    /\ after.render = before.render
                    /\ \A k \in 1..r.rsize :
                          /\ before.hl[k] # HL_MATCH => before.hl[k] = r.saved[k]
                          /\ after.hl[k] # HL_MATCH => after.hl[k] = r.saved[k]
          /\ \A n \in 1..Len(hist.overlay) :
                LET o == hist.overlay[n]
                IN  /\ InRows(hist.E, o.line)
                    /\ o.at >= 0
                    /\ o.at + o.len <= Len(hist.E.row[o.line + 1].hl)
                    /\ \A k \in 1..Len(E.row[o.line + 1].hl) :
                          E.row[o.line + 1].hl[k] = HL_MATCH =>
                              (o.at < k /\ k <= o.at + o.len)
          /\ E.ub = FALSE
    /\ pc = "find" =>
          /\ last_match = -1 \/ InRows(E, last_match)
          /\ saved_hl # NULL =>
                /\ InRows(E, saved_hl_line)
                /\ Len(saved_hl) = Len(E.row[saved_hl_line + 1].hl)
                /\ MatchRows(E) \subseteq {saved_hl_line}
    /\ pc = "main" => (saved_hl = NULL /\ last_match = -1 /\ MatchRows(E) = {})

\* In a second session of find mode, after rows were joined, Backspace has
\* emptied the query: the callback has put back the highlight of the hit on
\* the last row and searched again from row 0 with the empty query, which
\* hits row 0 with an overlay of no cell.
C30_Witness ==
    /\ pc = "find" /\ buf = <<>>
    /\ hist.tag = "prompt" /\ hist.keys = <<BACKSPACE>> /\ hist.buf # <<>>
    /\ E.numrows = 2 /\ E.dirty > 0
    /\ Len(hist.restored) = 1 /\ hist.restored[1].line = 1
    /\ Len(hist.overlay) = 1 /\ hist.overlay[1].len = 0 /\ hist.overlay[1].line = 0
====
